---- MODULE Spec2Model ----
(***************************************************************************)
(* Order placement and order status tracking of the MYE backend.           *)
(*                                                                         *)
(*   routes/payment.js  router.post('/')            checkout transaction   *)
(*   routes/orders.js   router.patch('/:id/status') status change by id    *)
(*   routes/orders.js   router.patch('/by-number/:orderNumber/status')     *)
(*   routes/products.js router.get, post, put, delete   product catalog     *)
(*   routes/brands.js   router.get, post, delete        brand catalog       *)
(*                                                                         *)
(* The relational store is the variable db (committed rows).  A checkout   *)
(* runs on its own client (pool.connect) between BEGIN and COMMIT or       *)
(* ROLLBACK: its uncommitted rows are tx[c].  The status handlers issue    *)
(* every statement with pool.query, which runs it on whichever pooled      *)
(* connection is handed out: conn[k] is the session state of connection k. *)
(* PostgreSQL runs at READ COMMITTED: a statement sees the committed rows  *)
(* and the uncommitted rows of its own session, and an UPDATE waits for    *)
(* the session that holds an uncommitted version of the row.               *)
(*                                                                         *)
(* The handler parses cart ids with parseInt and order_items.product_id    *)
(* is INTEGER (database/init.sql:108); products are keyed here by the      *)
(* integer the handler compares them with.                                 *)
(***************************************************************************)
EXTENDS Integers, Sequences, FiniteSets, TLC

VARIABLES
    db,         \* committed rows of every table
    tx,         \* tx[c]: uncommitted rows of checkout client c
    co,         \* co[c]: position and locals of checkout request c
    conn,       \* conn[k]: session of pooled connection k of routes/orders.js
    st,         \* st[s]: position and locals of status-change request s
    started,    \* requests accepted so far, per router
    reply,      \* the response sent last, per router
    initialStock, \* stock_quantity of every product in the initial state
    pconn       \* session of the pooled connection of routes/products.js

vars == <<db, tx, co, conn, st, started, reply, initialStock, pconn>>

-----------------------------------------------------------------------------
(* Bounds of the exploration *)

MaxCheckouts == 2
MaxCartItems == 2
MaxOrders == 1
MaxStatusRequests == 4
MaxRacing == 2
MaxCatalogRequests == 4

Clients == {"c1", "c2"}
Slots == {"s1", "s2"}
Conns == {"k1", "k2"}

-----------------------------------------------------------------------------
(* JavaScript and SQL values *)

Null == [kind |-> "null", val |-> 0]
NaN == [kind |-> "nan", val |-> 0]
IntVal(n) == [kind |-> "int", val |-> n]

NullText == "<null>"

Digits == {"0", "1", "2", "3", "4", "5", "6", "7", "8", "9"}

DigitVal(ch) ==
    CASE ch = "0" -> 0 [] ch = "1" -> 1 [] ch = "2" -> 2 [] ch = "3" -> 3
      [] ch = "4" -> 4 [] ch = "5" -> 5 [] ch = "6" -> 6 [] ch = "7" -> 7
      [] ch = "8" -> 8 [] ch = "9" -> 9

RECURSIVE ParseDigits(_, _, _)
ParseDigits(s, i, acc) ==
    IF i > Len(s) \/ s[i] \notin Digits
    THEN acc
    ELSE ParseDigits(s, i + 1, acc * 10 + DigitVal(s[i]))

\* parseInt(text): optional sign, then the longest prefix of digits; NaN if none.
ParseInt(s) ==
    LET neg == Len(s) > 0 /\ s[1] = "-"
        start == IF neg THEN 2 ELSE 1
    IN  IF start > Len(s) \/ s[start] \notin Digits
        THEN NaN
        ELSE IntVal((IF neg THEN -1 ELSE 1) * ParseDigits(s, start, 0))

\* The server's cast of a text parameter to an integer column: the whole text
\* must be an integer literal.
SqlInteger(s) ==
    LET neg == Len(s) > 0 /\ s[1] = "-"
        start == IF neg THEN 2 ELSE 1
    IN  IF start <= Len(s) /\ \A i \in start..Len(s) : s[i] \in Digits
        THEN ParseInt(s)
        ELSE NaN

\* if (productId): null, NaN and 0 are falsy.
Truthy(v) == v.kind = "int" /\ v.val # 0

\* a || b on strings
OrElse(a, b) == IF a # "" THEN a ELSE b

-----------------------------------------------------------------------------
(* Tables *)

EmptyRows ==
    [brands |-> << >>, products |-> << >>, users |-> << >>, orders |-> << >>,
     order_items |-> << >>, delivery_addresses |-> << >>,
     payment_info |-> << >>, order_status_history |-> << >>]

ApplyKeepingLastHistory(d, t) ==
    [brands |-> t.brands @@ d.brands,
     products |-> t.products @@ d.products,
     users |-> t.users @@ d.users,
     orders |-> t.orders @@ d.orders,
     order_items |-> d.order_items \o t.order_items,
     delivery_addresses |-> d.delivery_addresses \o t.delivery_addresses,
     payment_info |-> d.payment_info \o t.payment_info,
     order_status_history |->
        SelectSeq(d.order_status_history,
                  LAMBDA r : \A i \in 1..Len(t.order_status_history) :
                                t.order_status_history[i].order_id # r.order_id)
            \o t.order_status_history]

\* COMMIT: the session's rows become the committed rows.
Apply(d, t) ==
    [brands |-> t.brands @@ d.brands,
     products |-> t.products @@ d.products,
     users |-> t.users @@ d.users,
     orders |-> t.orders @@ d.orders,
     order_items |-> d.order_items \o t.order_items,
     delivery_addresses |-> d.delivery_addresses \o t.delivery_addresses,
     payment_info |-> d.payment_info \o t.payment_info,
     order_status_history |-> d.order_status_history \o t.order_status_history]

\* The statement that ends a transaction, applied to the committed rows.
EndTransaction(stmt, d, t) == IF stmt = "COMMIT" THEN Apply(d, t) ELSE d

Put(f, k, v) == (k :> v) @@ f

RECURSIVE FirstFree(_, _)
FirstFree(used, n) == IF n \in used THEN FirstFree(used, n + 1) ELSE n

\* uuid_generate_v4(): an id no committed or uncommitted row has.
FreshId(table) ==
    FirstFree(DOMAIN db[table] \cup UNION {DOMAIN tx[c][table] : c \in Clients}, 1)

-----------------------------------------------------------------------------
(* Stock status thresholds *)

LowStockMax == 10

StockStatusLowUnder(newStock) ==
    IF newStock = 0 THEN "out_of_stock"
    ELSE IF newStock < LowStockMax THEN "low_stock"
    ELSE "in_stock"

StockStatusFor(newStock) ==
    IF newStock = 0 THEN "out_of_stock"
    ELSE IF newStock <= LowStockMax THEN "low_stock"
    ELSE "in_stock"


-----------------------------------------------------------------------------
(* Checkout requests: the inputs explored *)

CartItem(id, name, q) ==
    [id |-> id, name |-> name, currentPrice |-> 0, price |-> 55,
     quantity |-> q, image |-> ""]

\* Cart entries: product 1 and 2 exist, product 3 is soft-deleted, no product
\* has id 4; an entry may carry no id, or an id with trailing characters.
ItemChoices ==
    {CartItem(<<"1">>, "MCB 16A", 1), CartItem(<<"1">>, "MCB 16A", 2),
     CartItem(<<"1">>, "MCB 16A", 3), CartItem(<<"1">>, "MCB 16A", -1),
     CartItem(<<"2">>, "Priz", 1),
     CartItem(<<"3">>, "Duy", 1), CartItem(<<"4">>, "Kablo", 1),
     CartItem(<< >>, "Hediye", 1), CartItem(<<"1", "x">>, "MCB 16A", 1)}

RECURSIVE SeqsUpTo(_, _)
SeqsUpTo(S, n) ==
    IF n = 0 THEN {<< >>}
    ELSE LET shorter == SeqsUpTo(S, n - 1)
         IN  shorter \cup {Append(q, x) : q \in shorter, x \in S}

Carts == SeqsUpTo(ItemChoices, MaxCartItems)

\* The keys the handler reads from req.body.
TopLevelKeys ==
    {"personalInfo", "deliveryAddress", "paymentInfo", "cartItems",
     "totalPrice", "kdv", "grandTotal"}

\* A request body: absent holds the top-level keys the body does not carry
\* (their value is undefined), cartIsArray is Array.isArray(cartItems); a
\* field of a section that the body does not carry is "".
BasePayload ==
    [personalInfo |-> [firstName |-> "Ada", lastName |-> "Kaya",
                       email |-> "ada@x", phone |-> "0555"],
     deliveryAddress |-> [address |-> "Cad. 1", city |-> "Izmir",
                          district |-> "Konak", postalCode |-> "35000"],
     paymentInfo |-> [cardNumber |-> "4111", cardName |-> "ADA KAYA",
                      expiryDate |-> "12/28", cvv |-> "123"],
     cartItems |-> <<CartItem(<<"1">>, "MCB 16A", 1)>>,
     totalPrice |-> 100, kdv |-> 20, grandTotal |-> 120,
     absent |-> {}, cartIsArray |-> TRUE]

NoPayload ==
    [personalInfo |-> [firstName |-> "", lastName |-> "", email |-> "",
                       phone |-> ""],
     deliveryAddress |-> [address |-> "", city |-> "", district |-> "",
                          postalCode |-> ""],
     paymentInfo |-> [cardNumber |-> "", cardName |-> "", expiryDate |-> "",
                      cvv |-> ""],
     cartItems |-> << >>, totalPrice |-> 0, kdv |-> 0, grandTotal |-> 0,
     absent |-> {}, cartIsArray |-> TRUE]

\* The body req without the top-level key k.
Without(req, k) ==
    [[req EXCEPT !.absent = @ \cup {k}] EXCEPT ![k] = NoPayload[k]]

\* The base payload without one top-level key, without one required field of
\* a section, or with a cartItems that is not an array.
IncompletePayloads ==
    {Without(BasePayload, k) : k \in TopLevelKeys}
    \cup {[BasePayload EXCEPT !.personalInfo[f] = ""] :
            f \in {"firstName", "lastName", "email", "phone"}}
    \cup {[BasePayload EXCEPT !.deliveryAddress[f] = ""] :
            f \in {"address", "city", "district"}}
    \cup {[BasePayload EXCEPT !.paymentInfo[f] = ""] :
            f \in {"cardNumber", "cardName", "expiryDate", "cvv"}}
    \cup {[BasePayload EXCEPT !.cartIsArray = FALSE]}

\* One section of the base payload varied at a time.
Payloads ==
    {[BasePayload EXCEPT !.cartItems = cart] : cart \in Carts}
    \cup {[BasePayload EXCEPT !.personalInfo = p] :
            p \in {[firstName |-> "Ali", lastName |-> "Can",
                    email |-> "ada@x", phone |-> "0532"],
                   [firstName |-> "Eda", lastName |-> "Er",
                    email |-> "eda@x", phone |-> "0544"],
                   [firstName |-> "Ada", lastName |-> "Kaya",
                    email |-> "ada@x", phone |-> ""]}}
    \cup {[BasePayload EXCEPT !.deliveryAddress = a] :
            a \in {[address |-> "Cad. 1", city |-> "Izmir",
                    district |-> "Konak", postalCode |-> ""],
                   [address |-> "Cad. 1", city |-> "",
                    district |-> "Konak", postalCode |-> ""]}}
    \cup {[BasePayload EXCEPT !.paymentInfo = k] :
            k \in {[cardNumber |-> "5500", cardName |-> "A KAYA",
                    expiryDate |-> "01/30", cvv |-> "999"],
                   [cardNumber |-> "4111", cardName |-> "ADA KAYA",
                    expiryDate |-> "12/28", cvv |-> ""]}}
    \cup {[BasePayload EXCEPT !.totalPrice = t[1], !.kdv = t[2],
                              !.grandTotal = t[3]] :
            t \in {<<100, 0, 100>>, <<100, 20, 125>>, <<0, 0, 0>>}}
    \cup IncompletePayloads

\* Payloads of the specification that interleaves checkouts with status changes.
FewPayloads ==
    {BasePayload,
     [BasePayload EXCEPT !.cartItems = <<CartItem(<<"1">>, "MCB 16A", 2),
                                         CartItem(<<"1">>, "MCB 16A", 1)>>]}

\* generateOrderNumber: MYE-<milliseconds>-<0..999>; two requests of the same
\* millisecond may draw the same suffix.
OrderNumbers == {"MYE-1700000000000-7", "MYE-1700000000000-8"}

-----------------------------------------------------------------------------
(* Checkout: routes/payment.js router.post('/') *)

NoResponse ==
    [to |-> "", code |-> 0, error |-> "", item |-> "", available |-> 0,
     requested |-> 0, orderId |-> 0, orderNumber |-> "", grandTotal |-> 0]

ErrorResponse(code, error) == [NoResponse EXCEPT !.code = code, !.error = error]

IdleCheckout ==
    [pc |-> "idle", req |-> NoPayload, orderNumber |-> "", userId |-> 0,
     orderId |-> 0, idx |-> 0, currentStock |-> 0]

ValidationErrorSkipsAddress(req) ==
    IF req.absent # {} \/ req.totalPrice = 0 \/ req.grandTotal = 0
    THEN "Missing required fields"
    ELSE IF \/ req.personalInfo.firstName = "" \/ req.personalInfo.lastName = ""
            \/ req.personalInfo.email = "" \/ req.personalInfo.phone = ""
    THEN "Missing required personalInfo fields"
    ELSE IF \/ req.paymentInfo.cardNumber = "" \/ req.paymentInfo.cardName = ""
            \/ req.paymentInfo.expiryDate = "" \/ req.paymentInfo.cvv = ""
    THEN "Missing required paymentInfo fields"
    ELSE IF ~req.cartIsArray \/ Len(req.cartItems) = 0
    THEN "cartItems must be a non-empty array"
    ELSE ""

\* The validation chain of the handler: the message of the first failing
\* check, "" when the payload passes.
ValidationError(req) ==
    IF req.absent # {} \/ req.totalPrice = 0 \/ req.grandTotal = 0
    THEN "Missing required fields"
    ELSE IF \/ req.personalInfo.firstName = "" \/ req.personalInfo.lastName = ""
            \/ req.personalInfo.email = "" \/ req.personalInfo.phone = ""
    THEN "Missing required personalInfo fields"
    ELSE IF \/ req.deliveryAddress.address = "" \/ req.deliveryAddress.city = ""
            \/ req.deliveryAddress.district = ""
    THEN "Missing required deliveryAddress fields"
    ELSE IF \/ req.paymentInfo.cardNumber = "" \/ req.paymentInfo.cardName = ""
            \/ req.paymentInfo.expiryDate = "" \/ req.paymentInfo.cvv = ""
    THEN "Missing required paymentInfo fields"
    ELSE IF ~req.cartIsArray \/ Len(req.cartItems) = 0
    THEN "cartItems must be a non-empty array"
    ELSE ""

\* SELECT id FROM users WHERE email = $1 (0: no row)
UserIdByEmail(users, email) ==
    IF \E id \in DOMAIN users : users[id].email = email
    THEN CHOOSE id \in DOMAIN users : users[id].email = email
    ELSE 0

UserRow(req) ==
    [first_name |-> req.personalInfo.firstName,
     last_name |-> req.personalInfo.lastName,
     email |-> req.personalInfo.email,
     phone |-> req.personalInfo.phone]

OrderRow(req, orderNumber, userId) ==
    [order_number |-> orderNumber, user_id |-> userId,
     total_price |-> req.totalPrice, kdv |-> req.kdv,
     grand_total |-> req.grandTotal, status |-> "order_received"]

InitialHistoryRowFromPending(orderId) ==
    [order_id |-> orderId, old_status |-> "pending",
     new_status |-> "order_received", changed_by |-> "system",
     notes |-> "Siparis olusturuldu"]

InitialHistoryRow(orderId) ==
    [order_id |-> orderId, old_status |-> NullText,
     new_status |-> "order_received", changed_by |-> "system",
     notes |-> "Siparis olusturuldu"]

DeliveryAddressRow(req, orderId) ==
    [order_id |-> orderId, address |-> req.deliveryAddress.address,
     city |-> req.deliveryAddress.city,
     district |-> req.deliveryAddress.district,
     postal_code |-> OrElse(req.deliveryAddress.postalCode, NullText)]

PaymentInfoRowWithCard(req, orderId) ==
    [order_id |-> orderId, payment_status |-> req.paymentInfo.cardNumber]

PaymentInfoRow(req, orderId) ==
    [order_id |-> orderId, payment_status |-> "completed"]

\* const productId = item.id ? parseInt(item.id) : null
ProductIdOf(item) == IF item.id # << >> THEN ParseInt(item.id) ELSE Null

\* item.currentPrice || item.price || 0
ProductPriceOf(item) ==
    IF item.currentPrice # 0 THEN item.currentPrice ELSE item.price

OrderItemRow(item, orderId) ==
    [order_id |-> orderId, product_id |-> ProductIdOf(item),
     product_name |-> item.name, product_price |-> ProductPriceOf(item),
     quantity |-> item.quantity,
     product_image |-> OrElse(item.image, NullText)]


\* catch (err): ROLLBACK, 500 with err.message
Failed(error) ==
    [co |-> IdleCheckout, tx |-> EmptyRows, end |-> "ROLLBACK",
     resp |-> ErrorResponse(500, error)]

\* BEGIN, validation, generateOrderNumber, SELECT id FROM users
BeginOut(req, orderNumber, d) ==
    IF ValidationError(req) # ""
    THEN [co |-> IdleCheckout, tx |-> EmptyRows, end |-> "ROLLBACK",
          resp |-> ErrorResponse(400, ValidationError(req))]
    ELSE [co |-> [IdleCheckout EXCEPT
                    !.pc = "user", !.req = req, !.orderNumber = orderNumber,
                    !.userId = UserIdByEmail(d.users, req.personalInfo.email)],
          tx |-> EmptyRows, end |-> "", resp |-> NoResponse]

RefreshedUserKeepsPhone(row, req) ==
    [row EXCEPT !.first_name = req.personalInfo.firstName,
                !.last_name = req.personalInfo.lastName]

\* UPDATE users SET first_name = $1, last_name = $2, phone = $3 WHERE id = $4
RefreshedUser(row, req) ==
    [row EXCEPT !.first_name = req.personalInfo.firstName,
                !.last_name = req.personalInfo.lastName,
                !.phone = req.personalInfo.phone]

\* INSERT INTO users, or UPDATE users of the row the SELECT returned
UserOut(l, t, d, freshId) ==
    IF l.userId = 0
    THEN IF UserIdByEmail(d.users, l.req.personalInfo.email) # 0
         THEN Failed("duplicate key value violates unique constraint users_email_key")
         ELSE [co |-> [l EXCEPT !.pc = "order", !.userId = freshId],
               tx |-> [t EXCEPT !.users = Put(@, freshId, UserRow(l.req))],
               end |-> "", resp |-> NoResponse]
    ELSE [co |-> [l EXCEPT !.pc = "order"],
          tx |-> [t EXCEPT !.users =
                    Put(@, l.userId, RefreshedUser(d.users[l.userId], l.req))],
          end |-> "", resp |-> NoResponse]

OrderNumberTakenNever(orders, orderNumber) == FALSE

\* orders.order_number VARCHAR(50) UNIQUE: a committed row holds the number
OrderNumberTaken(orders, orderNumber) ==
    \E o \in DOMAIN orders : orders[o].order_number = orderNumber

\* INSERT INTO orders, order_status_history, delivery_addresses, payment_info
OrderOut(l, t, d, freshId) ==
    IF OrderNumberTaken(d.orders, l.orderNumber)
    THEN Failed("duplicate key value violates unique constraint orders_order_number_key")
    ELSE [co |-> [l EXCEPT !.pc = "item", !.orderId = freshId, !.idx = 1],
          tx |-> [t EXCEPT
                    !.orders = Put(@, freshId,
                                   OrderRow(l.req, l.orderNumber, l.userId)),
                    !.order_status_history = Append(@, InitialHistoryRow(freshId)),
                    !.delivery_addresses =
                        Append(@, DeliveryAddressRow(l.req, freshId)),
                    !.payment_info = Append(@, PaymentInfoRow(l.req, freshId))],
          end |-> "", resp |-> NoResponse]

\* const newStock = currentStock - orderQuantity
NewStock(currentStock, orderQuantity) == currentStock - orderQuantity

\* The product rows a statement of the checkout's client sees: its own
\* uncommitted versions, else the committed ones.
CommittedProducts(t, d) == d.products

VisibleProducts(t, d) == t.products @@ d.products

\* The position after cart entry l.idx.
NextEntryLeavesLoop(l) == [l EXCEPT !.pc = "commit", !.currentStock = 0]

NextEntry(l) ==
    IF l.idx < Len(l.req.cartItems)
    THEN [l EXCEPT !.pc = "item", !.idx = l.idx + 1, !.currentStock = 0]
    ELSE [l EXCEPT !.pc = "commit", !.currentStock = 0]

\* INSERT INTO order_items, then SELECT stock_quantity of the product
ItemOut(l, t, d) ==
    LET item == l.req.cartItems[l.idx]
        productId == ProductIdOf(item)
        products == VisibleProducts(t, d)
        inserted == [t EXCEPT !.order_items =
                        Append(@, OrderItemRow(item, l.orderId))]
    IN  IF productId.kind = "nan"
        THEN Failed("invalid input syntax for type integer")
        ELSE IF productId.kind = "int" /\ productId.val \notin DOMAIN products
        THEN Failed("violates foreign key constraint order_items_product_id_fkey")
        ELSE IF Truthy(productId) /\ ~products[productId.val].is_deleted
        THEN [co |-> [l EXCEPT !.pc = "stock",
                        !.currentStock = products[productId.val].stock_quantity],
              tx |-> inserted, end |-> "", resp |-> NoResponse]
        ELSE [co |-> NextEntry(l), tx |-> inserted, end |-> "", resp |-> NoResponse]

\* the statement the handler sends when the stock does not suffice
InsufficientStockEndCommits == "COMMIT"

InsufficientStockEnd == "ROLLBACK"

\* if (currentStock < orderQuantity)
InsufficientStock(currentStock, orderQuantity) == currentStock < orderQuantity

\* the stock check, then UPDATE products SET stock_quantity, stock_status
StockOut(l, t, d) ==
    LET item == l.req.cartItems[l.idx]
        orderQuantity == item.quantity
        target == SqlInteger(item.id)
        products == VisibleProducts(t, d)
        newStock == NewStock(l.currentStock, orderQuantity)
    IN  IF InsufficientStock(l.currentStock, orderQuantity)
        THEN [co |-> IdleCheckout, tx |-> EmptyRows,
              end |-> InsufficientStockEnd,
              resp |-> [NoResponse EXCEPT
                          !.code = 400, !.error = "Yetersiz stok",
                          !.item = item.name, !.available = l.currentStock,
                          !.requested = orderQuantity]]
        ELSE IF target.kind = "nan"
        THEN Failed("invalid input syntax for type integer")
        ELSE IF target.val \in DOMAIN products /\ ~products[target.val].is_deleted
        THEN [co |-> NextEntry(l),
              tx |-> [t EXCEPT !.products =
                        Put(@, target.val,
                            [products[target.val] EXCEPT
                               !.stock_quantity = newStock,
                               !.stock_status = StockStatusFor(newStock)])],
              end |-> "", resp |-> NoResponse]
        ELSE [co |-> NextEntry(l), tx |-> t, end |-> "", resp |-> NoResponse]

\* COMMIT, 201
CommitOut(l, t, d) ==
    [co |-> IdleCheckout, tx |-> EmptyRows, end |-> "COMMIT",
     resp |-> [NoResponse EXCEPT
                  !.code = 201, !.orderId = l.orderId,
                  !.orderNumber = t.orders[l.orderId].order_number,
                  !.grandTotal = t.orders[l.orderId].grand_total]]

\* The statement of request c waits for a row another session has written and
\* not yet committed: the unique index entry of a user or an order, or the
\* row of a user or a product.
CheckoutWaits(c) ==
    LET l == co[c]
        others == Clients \ {c}
    IN  CASE l.pc = "user" ->
               \E c2 \in others : \E id \in DOMAIN tx[c2].users :
                   \/ id = l.userId
                   \/ /\ l.userId = 0
                      /\ tx[c2].users[id].email = l.req.personalInfo.email
          [] l.pc = "order" ->
               \E c2 \in others : \E o \in DOMAIN tx[c2].orders :
                   tx[c2].orders[o].order_number = l.orderNumber
          [] l.pc = "stock" ->
               /\ ~InsufficientStock(l.currentStock,
                                     l.req.cartItems[l.idx].quantity)
               /\ \/ \E c2 \in others :
                        SqlInteger(l.req.cartItems[l.idx].id).val
                            \in DOMAIN tx[c2].products
                  \/ SqlInteger(l.req.cartItems[l.idx].id).val
                         \in DOMAIN pconn.rows.products
          [] OTHER -> FALSE

\* One step of request c; a response, when the step sends one, is recorded.
CheckoutStep(c, out) ==
    /\ co' = [co EXCEPT ![c] = out.co]
    /\ tx' = [tx EXCEPT ![c] = out.tx]
    /\ db' = EndTransaction(out.end, db, tx[c])
    /\ reply' = IF out.resp.code = 0 THEN reply
                ELSE [reply EXCEPT !.checkout = [out.resp EXCEPT !.to = c]]
    /\ UNCHANGED <<conn, st, initialStock, pconn>>

CheckoutBegin(c, payloads, limit) ==
    /\ co[c].pc = "idle"
    /\ started.checkout < limit
    /\ started' = [started EXCEPT !.checkout = @ + 1]
    /\ \E req \in payloads, orderNumber \in OrderNumbers :
          CheckoutStep(c, BeginOut(req, orderNumber, db))

CheckoutUser(c) ==
    /\ co[c].pc = "user"
    /\ ~CheckoutWaits(c)
    /\ CheckoutStep(c, UserOut(co[c], tx[c], db, FreshId("users")))
    /\ UNCHANGED started

CheckoutOrder(c) ==
    /\ co[c].pc = "order"
    /\ ~CheckoutWaits(c)
    /\ CheckoutStep(c, OrderOut(co[c], tx[c], db, FreshId("orders")))
    /\ UNCHANGED started

CheckoutItem(c) ==
    /\ co[c].pc = "item"
    /\ CheckoutStep(c, ItemOut(co[c], tx[c], db))
    /\ UNCHANGED started

CheckoutStock(c) ==
    /\ co[c].pc = "stock"
    /\ ~CheckoutWaits(c)
    /\ CheckoutStep(c, StockOut(co[c], tx[c], db))
    /\ UNCHANGED started

CheckoutCommit(c) ==
    /\ co[c].pc = "commit"
    /\ CheckoutStep(c, CommitOut(co[c], tx[c], db))
    /\ UNCHANGED started


-----------------------------------------------------------------------------
(* Order status: routes/orders.js *)

ValidStatusesWithPending ==
    {"order_received", "preparing", "shipped", "returned", "cancelled",
     "completed", "pending"}

ValidStatuses ==
    {"order_received", "preparing", "shipped", "returned", "cancelled",
     "completed"}

AllowedTransitions(oldStatus) ==
    CASE oldStatus = "order_received" -> {"preparing", "cancelled"}
      [] oldStatus = "preparing" -> {"shipped", "cancelled"}
      [] oldStatus = "shipped" -> {"completed", "returned"}
      [] oldStatus = "returned" -> {"completed", "cancelled"}
      [] oldStatus = "cancelled" -> {}
      [] oldStatus = "completed" -> {}
      [] OTHER -> {}

IsValidStatusTransitionAnyFromShipped(oldStatus, newStatus) ==
    IF oldStatus \in {"", NullText} THEN TRUE
    ELSE newStatus \in AllowedTransitions(oldStatus) \cup
                       (IF oldStatus = "shipped" THEN {"cancelled"} ELSE {})

IsValidStatusTransition(oldStatus, newStatus) ==
    IF oldStatus \in {"", NullText} THEN TRUE
    ELSE newStatus \in AllowedTransitions(oldStatus)

\* The targets the rejection message lists.
AllowedTargets(oldStatus) ==
    {t \in ValidStatuses : IsValidStatusTransition(oldStatus, t)}

\* order_status_history.changed_by VARCHAR(255)
ChangedByMaxLen == 255

NoHeader == [text |-> "", len |-> 0]

\* req.headers['x-user-id'] || 'admin'
ChangedByOf(header) ==
    IF header.text # "" THEN header ELSE [text |-> "admin", len |-> 5]

\* Status-change requests: the inputs explored.  A body is {status, notes},
\* sent with or without an x-user-id header.
StatusBodies ==
    {[notes |-> "", header |-> NoHeader],
     [notes |-> "Kargoya verildi", header |-> NoHeader],
     [notes |-> "", header |-> [text |-> "ops-7", len |-> 5]],
     [notes |-> "", header |-> [text |-> "ops-7-with-a-very-long-name", len |-> 256]]}

StatusTargets == ValidStatuses \cup {"", "pending"}

StatusRequests ==
    {[via |-> "id", id |-> i, orderNumber |-> "", status |-> t,
      notes |-> b.notes, header |-> b.header] :
        i \in 1..(MaxOrders + 1), t \in StatusTargets, b \in StatusBodies}
    \cup
    {[via |-> "number", id |-> 0, orderNumber |-> n, status |-> t,
      notes |-> b.notes, header |-> b.header] :
        n \in OrderNumbers \cup {"MYE-0-0"}, t \in StatusTargets,
        b \in StatusBodies}

\* Well-formed requests for the first order, with and without a header that
\* does not fit order_status_history.changed_by.
RacingRequests ==
    {r \in StatusRequests :
        /\ r.status \in ValidStatuses
        /\ r.notes = ""
        /\ r.header.len \in {0, ChangedByMaxLen + 1}
        /\ r.id = 1 \/ r.orderNumber \in OrderNumbers}

\* Requests whose x-user-id header fits order_status_history.changed_by.
FittingRequests ==
    {r \in StatusRequests : ChangedByOf(r.header).len <= ChangedByMaxLen}

NoStatusRequest ==
    [via |-> "", id |-> 0, orderNumber |-> "", status |-> "", notes |-> "",
     header |-> NoHeader]

\* A response, with the request it answers (its slot, its route, the order it
\* found and the status it asked for) and what the request had done when the
\* response was sent: whether its COMMIT had returned, and the outcome of the
\* notification it attempted.
NoStatusResponse ==
    [to |-> "", via |-> "", orderId |-> 0, target |-> "", code |-> 0,
     error |-> "", allowed |-> {}, status |-> "", committed |-> FALSE,
     notify |-> ""]

IdleStatus ==
    [pc |-> "idle", req |-> NoStatusRequest, orderId |-> 0, oldStatus |-> "",
     orderNumber |-> "", err |-> "", committed |-> FALSE]

StatusError(code, error) ==
    [NoStatusResponse EXCEPT !.code = code, !.error = error]

Rejected(code, error, orderId) ==
    [st |-> IdleStatus,
     resp |-> [StatusError(code, error) EXCEPT !.orderId = orderId]]

CleanSession == [intx |-> FALSE, aborted |-> FALSE, rows |-> EmptyRows]

\* The order rows a statement on session k sees.
VisibleOrders(sess, d) == sess.rows.orders @@ d.orders

OrderIdByNumberNever(orders, orderNumber) == 0

\* SELECT id, status FROM orders WHERE order_number = $1 (0: no row)
OrderIdByNumber(orders, orderNumber) ==
    IF \E o \in DOMAIN orders : orders[o].order_number = orderNumber
    THEN CHOOSE o \in DOMAIN orders : orders[o].order_number = orderNumber
    ELSE 0

SameStatusNever(oldStatus, status) == FALSE

\* if (oldStatus === status)
SameStatus(oldStatus, status) == oldStatus = status

\* Validation of the body, the SELECT of the current status, and the checks
\* on it.  The outer catch answers 500 without a ROLLBACK.
ArriveOut(req, sess, d) ==
    LET orders == VisibleOrders(sess, d)
        found == IF req.via = "id"
                 THEN (IF req.id \in DOMAIN orders THEN req.id ELSE 0)
                 ELSE OrderIdByNumber(orders, req.orderNumber)
    IN  IF req.status \notin ValidStatuses
        THEN Rejected(400, "Status must be one of", 0)
        ELSE IF sess.aborted
        THEN Rejected(500, "current transaction is aborted", 0)
        ELSE IF found = 0
        THEN Rejected(404, "Order not found", 0)
        ELSE IF SameStatus(orders[found].status, req.status)
        THEN Rejected(400, "Order is already in this status", found)
        ELSE IF ~IsValidStatusTransition(orders[found].status, req.status)
        THEN [st |-> IdleStatus,
              resp |-> [StatusError(400, "Cannot transition") EXCEPT
                          !.orderId = found,
                          !.allowed = AllowedTargets(orders[found].status)]]
        ELSE [st |-> [IdleStatus EXCEPT
                        !.pc = "begin", !.req = req, !.orderId = found,
                        !.oldStatus = orders[found].status,
                        !.orderNumber = orders[found].order_number],
              resp |-> NoStatusResponse]

\* A statement inside the inner try failed: the inner catch sends ROLLBACK.
ToRollback(l, error) == [l EXCEPT !.pc = "rollback", !.err = error]

\* pool.query('BEGIN')
BeginTxOut(l, sess) ==
    IF sess.aborted
    THEN [st |-> IdleStatus, sess |-> sess,
          resp |-> [StatusError(500, "current transaction is aborted") EXCEPT
                      !.orderId = l.orderId]]
    ELSE [st |-> [l EXCEPT !.pc = "update"],
          sess |-> [sess EXCEPT !.intx = TRUE], resp |-> NoStatusResponse]

\* A write of a session: kept with the session inside a transaction,
\* committed at once outside one.
Write(sess, d, rows) ==
    IF sess.intx
    THEN [sess |-> [sess EXCEPT !.rows = Apply(@, rows)], db |-> d]
    ELSE [sess |-> sess, db |-> Apply(d, rows)]

\* UPDATE orders SET status = $1 WHERE id = $2 RETURNING *
UpdateOut(l, sess, d) ==
    IF sess.aborted
    THEN [st |-> ToRollback(l, "current transaction is aborted"),
          sess |-> sess, db |-> d, resp |-> NoStatusResponse]
    ELSE LET row == [VisibleOrders(sess, d)[l.orderId] EXCEPT
                        !.status = l.req.status]
             w == Write(sess, d,
                        [EmptyRows EXCEPT !.orders = (l.orderId :> row)])
         IN  [st |-> [l EXCEPT !.pc = "insert"], sess |-> w.sess, db |-> w.db,
              resp |-> NoStatusResponse]

StatusHistoryRow(l) ==
    [order_id |-> l.orderId, old_status |-> l.oldStatus,
     new_status |-> l.req.status,
     changed_by |-> ChangedByOf(l.req.header).text,
     notes |-> OrElse(l.req.notes, NullText)]

\* INSERT INTO order_status_history
InsertOut(l, sess, d) ==
    IF sess.aborted
    THEN [st |-> ToRollback(l, "current transaction is aborted"),
          sess |-> sess, db |-> d, resp |-> NoStatusResponse]
    ELSE IF ChangedByOf(l.req.header).len > ChangedByMaxLen
    THEN [st |-> ToRollback(l, "value too long for type character varying(255)"),
          sess |-> [sess EXCEPT !.aborted = sess.intx], db |-> d,
          resp |-> NoStatusResponse]
    ELSE LET w == Write(sess, d,
                        [EmptyRows EXCEPT
                           !.order_status_history = <<StatusHistoryRow(l)>>])
         IN  [st |-> [l EXCEPT !.pc = "commit"], sess |-> w.sess, db |-> w.db,
              resp |-> NoStatusResponse]

\* COMMIT or ROLLBACK on a session: outside a transaction a warning only; the
\* COMMIT of a failed transaction rolls it back without an error.
EndSession(stmt, sess, d) ==
    [sess |-> CleanSession,
     db |-> IF sess.intx /\ ~sess.aborted
            THEN EndTransaction(stmt, d, sess.rows)
            ELSE d]

OkResponse(l, notify) ==
    [NoStatusResponse EXCEPT !.code = 200, !.orderId = l.orderId,
                             !.status = l.req.status, !.committed = TRUE,
                             !.notify = notify]

\* pool.query('COMMIT'); by id, the notification and the response follow.
CommitStatusOut(l, sess, d, delivered) ==
    LET e == EndSession("COMMIT", sess, d)
        done == [l EXCEPT !.committed = TRUE]
    IN  IF l.req.via = "id"
        THEN [st |-> IdleStatus, sess |-> e.sess, db |-> e.db,
              resp |-> OkResponse(l, IF delivered THEN "sent" ELSE "failed")]
        ELSE [st |-> [done EXCEPT !.pc = "lookup"], sess |-> e.sess,
              db |-> e.db, resp |-> NoStatusResponse]

\* by number: SELECT o.*, u.email ... LEFT JOIN users, the notification when
\* the order has a user with an email, and the response.
LookupOut(l, sess, d, fails, delivered) ==
    LET orders == VisibleOrders(sess, d)
        userId == orders[l.orderId].user_id
        hasEmail == userId \in DOMAIN d.users /\ d.users[userId].email # ""
    IN  IF sess.aborted \/ fails
        THEN [st |-> ToRollback(l, "lookup of the order's user failed"),
              resp |-> NoStatusResponse]
        ELSE [st |-> IdleStatus,
              resp |-> OkResponse(l, IF ~hasEmail THEN "none"
                                     ELSE IF delivered THEN "sent"
                                     ELSE "failed")]

\* inner catch: pool.query('ROLLBACK'), then 500 from the outer catch
RollbackOut(l, sess, d) ==
    LET e == EndSession("ROLLBACK", sess, d)
    IN  [st |-> IdleStatus, sess |-> e.sess, db |-> e.db,
         resp |-> [StatusError(500, l.err) EXCEPT
                     !.orderId = l.orderId, !.committed = l.committed]]

\* The UPDATE of request s on session k waits while another session holds an
\* uncommitted version of the order row.
StatusWaits(s, k) ==
    /\ st[s].pc = "update"
    /\ ~conn[k].aborted
    /\ \E k2 \in Conns \ {k} : st[s].orderId \in DOMAIN conn[k2].rows.orders

\* One statement of request s on connection k; a response, when the step
\* sends one, is recorded.
StatusStep(s, k, req, out) ==
    /\ st' = [st EXCEPT ![s] = out.st]
    /\ conn' = [conn EXCEPT ![k] = out.sess]
    /\ db' = out.db
    /\ reply' = IF out.resp.code = 0 THEN reply
                ELSE [reply EXCEPT !.status =
                        [out.resp EXCEPT !.to = s, !.via = req.via,
                                         !.target = req.status]]
    /\ UNCHANGED <<tx, co, initialStock, pconn>>

StatusArrive(s, k, requests, limit) ==
    /\ st[s].pc = "idle"
    /\ started.status < limit
    /\ started' = [started EXCEPT !.status = @ + 1]
    /\ \E req \in requests :
          LET out == ArriveOut(req, conn[k], db)
          IN  StatusStep(s, k, req,
                         [st |-> out.st, sess |-> conn[k], db |-> db,
                          resp |-> out.resp])

StatusBeginTx(s, k) ==
    /\ st[s].pc = "begin"
    /\ LET out == BeginTxOut(st[s], conn[k])
       IN  StatusStep(s, k, st[s].req,
                      [st |-> out.st, sess |-> out.sess, db |-> db,
                       resp |-> out.resp])
    /\ UNCHANGED started

StatusUpdate(s, k) ==
    /\ st[s].pc = "update"
    /\ ~StatusWaits(s, k)
    /\ StatusStep(s, k, st[s].req, UpdateOut(st[s], conn[k], db))
    /\ UNCHANGED started

StatusInsert(s, k) ==
    /\ st[s].pc = "insert"
    /\ StatusStep(s, k, st[s].req, InsertOut(st[s], conn[k], db))
    /\ UNCHANGED started

StatusCommit(s, k) ==
    /\ st[s].pc = "commit"
    /\ \E delivered \in BOOLEAN :
          StatusStep(s, k, st[s].req,
                     CommitStatusOut(st[s], conn[k], db, delivered))
    /\ UNCHANGED started

\* faults: whether the storage may fail the SELECT.
StatusLookup(s, k, faults) ==
    /\ st[s].pc = "lookup"
    /\ \E fails \in faults, delivered \in BOOLEAN :
          LET out == LookupOut(st[s], conn[k], db, fails, delivered)
          IN  StatusStep(s, k, st[s].req,
                         [st |-> out.st, sess |-> conn[k], db |-> db,
                          resp |-> out.resp])
    /\ UNCHANGED started

StatusRollback(s, k) ==
    /\ st[s].pc = "rollback"
    /\ StatusStep(s, k, st[s].req, RollbackOut(st[s], conn[k], db))
    /\ UNCHANGED started

-----------------------------------------------------------------------------
(* Catalog: routes/products.js and routes/brands.js *)

\* A response of the catalog routers, with the operation it answers, the id
\* and the brand name of the request, and the ids a list or a get returned.
NoCatalogResponse ==
    [op |-> "", id |-> 0, name |-> << >>, code |-> 0, error |-> "",
     listed |-> {}, restored |-> FALSE]

CatalogResponse(op, id, code, error) ==
    [NoCatalogResponse EXCEPT !.op = op, !.id = id, !.code = code,
                              !.error = error]

\* An array of the body: the key may be missing.
NotGiven == [given |-> FALSE, val |-> << >>]

Given(v) == [given |-> TRUE, val |-> v]

\* A product body.  name "", sku "" and stockStatus "" stand for a key the
\* body does not carry, as does stockQuantity Null; a POST carries brand,
\* originalPrice and currentPrice in every body explored, a PUT none of them.
ProductBody(name, sku, stockStatus, stockQuantity) ==
    [name |-> name, sku |-> sku, stockStatus |-> stockStatus,
     stockQuantity |-> stockQuantity, images |-> NotGiven,
     features |-> NotGiven]

\* The body {}.
EmptyBody == ProductBody("", "", "", Null)

\* Bodies of POST /api/products: a new sku, the sku of product 1 and the sku
\* of the soft-deleted product 3, with and without the stock fields; a body
\* without name and a body without sku.
CreateBodies ==
    {ProductBody("Sigorta", sku, t[1], t[2]) :
        sku \in {"SKU-1", "SKU-3", "SKU-4"},
        t \in {<<"", Null>>, <<"in_stock", IntVal(12)>>}}
    \cup {ProductBody("", "SKU-4", "", Null), ProductBody("Sigorta", "", "", Null)}

\* Bodies of PUT /api/products/:id: no field, or one or two fields.
UpdateBodies ==
    {EmptyBody,
     [EmptyBody EXCEPT !.images = Given(<<"b.jpg">>)],
     [EmptyBody EXCEPT !.features = Given(<<"IP65">>)],
     [EmptyBody EXCEPT !.sku = "SKU-1"],
     [EmptyBody EXCEPT !.sku = "SKU-4"],
     [EmptyBody EXCEPT !.stockQuantity = IntVal(0)],
     [EmptyBody EXCEPT !.stockStatus = "out_of_stock",
                       !.stockQuantity = IntVal(0)]}

ProductBodies == CreateBodies \cup UpdateBodies

\* req.params.id of the product routes: products 1 to 3 exist at the start.
ProductIds == 1..4

\* req.params.id of the brand routes: brands 1 and 2 exist at the start.
BrandIds == 1..3

\* Brand names as texts of characters; " " is a blank.
BrandNames == {<<"ABB">>, <<" ", "ABB", " ">>, <<"HAGER">>, <<" ">>, << >>}

RECURSIVE TrimStart(_)
TrimStart(s) ==
    IF s # << >> /\ Head(s) = " " THEN TrimStart(Tail(s)) ELSE s

RECURSIVE TrimEnd(_)
TrimEnd(s) ==
    IF s # << >> /\ s[Len(s)] = " " THEN TrimEnd(SubSeq(s, 1, Len(s) - 1))
    ELSE s

\* name.trim()
Trim(s) == TrimEnd(TrimStart(s))

\* uuid_generate_v4() for a row of the catalog tables.
FreshCatalogId(table) ==
    FirstFree(DOMAIN db[table] \cup DOMAIN pconn.rows[table], 1)

\* The product rows a statement on the session sees.
SessionProducts(sess, d) == sess.rows.products @@ d.products

\* client.query('BEGIN'): inside a transaction a warning only.
Begun(sess) == [sess EXCEPT !.intx = TRUE]

\* The handler ends the transaction with stmt and answers resp.
Ended(stmt, sess, d, resp) ==
    LET e == EndSession(stmt, sess, d)
    IN  [sess |-> e.sess, db |-> e.db, resp |-> resp]

\* const { features = [], images = [] } = req.body
ArrayOrDefault(field) == IF field.given THEN field.val ELSE << >>

\* stockStatus || 'in_stock', stockQuantity || 0; the features are the rows
\* of product_features of the product, kept here with its row; an images
\* column that is null is << >>.
NewProductRow(body) ==
    [sku |-> body.sku,
     images |-> ArrayOrDefault(body.images),
     features |-> ArrayOrDefault(body.features),
     stock_quantity |-> IF Truthy(body.stockQuantity)
                        THEN body.stockQuantity.val ELSE 0,
     stock_status |-> OrElse(body.stockStatus, "in_stock"),
     is_deleted |-> FALSE]

\* POST /api/products: BEGIN, validation (answered without a ROLLBACK), the
\* SKU check, INSERT, COMMIT.
ProductCreateOut(body, sess, d, freshId) ==
    LET begun == Begun(sess)
        products == SessionProducts(begun, d)
    IN  IF body.name = "" \/ body.sku = ""
        THEN [sess |-> begun, db |-> d,
              resp |-> CatalogResponse("product.create", 0, 400,
                                       "Missing required fields: name, sku, brand, originalPrice, currentPrice")]
        ELSE IF \E p \in DOMAIN products :
                   products[p].sku = body.sku /\ ~products[p].is_deleted
        THEN Ended("ROLLBACK", begun, d,
                   CatalogResponse("product.create", 0, 400,
                                   "A product with this SKU already exists"))
        ELSE IF \E p \in DOMAIN products : products[p].sku = body.sku
        THEN Ended("ROLLBACK", begun, d,
                   CatalogResponse("product.create", 0, 400,
                                   "A product with this SKU already exists (including deleted products)"))
        ELSE LET w == Write(begun, d,
                            [EmptyRows EXCEPT
                               !.products = (freshId :> NewProductRow(body))])
             IN  Ended("COMMIT", w.sess, w.db,
                       CatalogResponse("product.create", freshId, 201, ""))

\* updateFields without updated_at: a column for every destructured value
\* that is not undefined; images is [] by default and so never undefined.
UpdateFields(body) ==
    (IF body.name # "" THEN {"name"} ELSE {})
    \cup (IF body.sku # "" THEN {"sku"} ELSE {})
    \cup (IF body.stockStatus # "" THEN {"stock_status"} ELSE {})
    \cup (IF body.stockQuantity.kind = "int" THEN {"stock_quantity"} ELSE {})
    \cup {"images"}

\* The SET list of the UPDATE, and the DELETE and INSERT of product_features
\* (if (features !== undefined), with features [] by default).
UpdatedProductRow(row, body) ==
    [row EXCEPT
       !.images = ArrayOrDefault(body.images),
       !.features = ArrayOrDefault(body.features),
       !.sku = IF body.sku # "" THEN body.sku ELSE @,
       !.stock_status = IF body.stockStatus # "" THEN body.stockStatus ELSE @,
       !.stock_quantity = IF body.stockQuantity.kind = "int"
                          THEN body.stockQuantity.val ELSE @]

\* PUT /api/products/:id: BEGIN, the SKU check, UPDATE ... WHERE id = $n AND
\* is_deleted = FALSE, COMMIT.
ProductUpdateOut(id, body, sess, d) ==
    LET begun == Begun(sess)
        products == SessionProducts(begun, d)
    IN  IF /\ body.sku # ""
           /\ \E p \in DOMAIN products \ {id} :
                 products[p].sku = body.sku /\ ~products[p].is_deleted
        THEN Ended("ROLLBACK", begun, d,
                   CatalogResponse("product.update", id, 400,
                                   "A product with this SKU already exists"))
        ELSE IF UpdateFields(body) = {}
        THEN Ended("ROLLBACK", begun, d,
                   CatalogResponse("product.update", id, 400,
                                   "No fields provided to update"))
        ELSE IF id \notin DOMAIN products \/ products[id].is_deleted
        THEN Ended("ROLLBACK", begun, d,
                   CatalogResponse("product.update", id, 404,
                                   "Product not found or deleted"))
        ELSE IF /\ body.sku # ""
                /\ \E p \in DOMAIN products \ {id} : products[p].sku = body.sku
        THEN Ended("ROLLBACK", begun, d,
                   CatalogResponse("product.update", id, 500,
                                   "duplicate key value violates unique constraint products_sku_key"))
        ELSE LET w == Write(begun, d,
                            [EmptyRows EXCEPT
                               !.products =
                                  (id :> UpdatedProductRow(products[id], body))])
             IN  Ended("COMMIT", w.sess, w.db,
                       CatalogResponse("product.update", id, 200, ""))

DeletableAlways(row) == TRUE

\* WHERE ... AND is_deleted = FALSE of the soft delete
Deletable(row) == ~row.is_deleted

\* SET is_deleted = TRUE
DeletedRow(row) == [row EXCEPT !.is_deleted = TRUE]

\* DELETE /api/products/:id: one UPDATE sent with pool.query
ProductDeleteOut(id, sess, d) ==
    LET products == SessionProducts(sess, d)
    IN  IF id \in DOMAIN products /\ Deletable(products[id])
        THEN LET w == Write(sess, d,
                            [EmptyRows EXCEPT
                               !.products = (id :> DeletedRow(products[id]))])
             IN  [sess |-> w.sess, db |-> w.db,
                  resp |-> CatalogResponse("product.delete", id, 200, "")]
        ELSE [sess |-> sess, db |-> d,
              resp |-> CatalogResponse("product.delete", id, 404,
                                       "Product not found or already deleted")]

\* The rows a SELECT ... WHERE is_deleted = FALSE returns.
NotDeleted(rows) == {i \in DOMAIN rows : ~rows[i].is_deleted}

\* GET /api/products/:id
ProductGetOut(id, sess, d) ==
    [sess |-> sess, db |-> d,
     resp |-> IF id \in NotDeleted(SessionProducts(sess, d))
              THEN [CatalogResponse("product.get", id, 200, "") EXCEPT
                      !.listed = {id}]
              ELSE CatalogResponse("product.get", id, 404, "Product not found")]

\* GET /api/products without filters, every row on the first page
ProductListOut(sess, d) ==
    [sess |-> sess, db |-> d,
     resp |-> [CatalogResponse("product.list", 0, 200, "") EXCEPT
                 !.listed = NotDeleted(SessionProducts(sess, d))]]

\* SELECT id, is_deleted FROM brands WHERE name = $1 (0: no row)
BrandIdByName(brands, name) ==
    IF \E b \in DOMAIN brands : brands[b].name = name
    THEN CHOOSE b \in DOMAIN brands : brands[b].name = name
    ELSE 0

RestoredBrandStaysDeleted(row) == row

\* UPDATE brands SET is_deleted = FALSE
RestoredBrand(row) == [row EXCEPT !.is_deleted = FALSE]

\* POST /api/brands: every statement is sent with pool.query outside a
\* transaction.  The error texts are spelled here without diacritics.
BrandCreateOut(name, sess, d, freshId) ==
    LET trimmed == Trim(name)
        found == BrandIdByName(d.brands, trimmed)
        answer(id, code, error) ==
            [CatalogResponse("brand.create", id, code, error) EXCEPT
               !.name = name]
    IN  IF trimmed = << >>
        THEN [sess |-> sess, db |-> d,
              resp |-> answer(0, 400, "Marka adi gereklidir")]
        ELSE IF found # 0 /\ d.brands[found].is_deleted
        THEN [sess |-> sess,
              db |-> [d EXCEPT !.brands[found] = RestoredBrand(@)],
              resp |-> [answer(found, 200, "") EXCEPT !.restored = TRUE]]
        ELSE IF found # 0
        THEN [sess |-> sess, db |-> d,
              resp |-> answer(found, 400, "Bu marka zaten mevcut")]
        ELSE [sess |-> sess,
              db |-> [d EXCEPT !.brands =
                        Put(@, freshId, [name |-> trimmed, is_deleted |-> FALSE])],
              resp |-> answer(freshId, 201, "")]

\* DELETE /api/brands/:id
BrandDeleteOut(id, sess, d) ==
    IF id \in DOMAIN d.brands /\ Deletable(d.brands[id])
    THEN [sess |-> sess, db |-> [d EXCEPT !.brands[id] = DeletedRow(@)],
          resp |-> CatalogResponse("brand.delete", id, 200, "")]
    ELSE [sess |-> sess, db |-> d,
          resp |-> CatalogResponse("brand.delete", id, 404,
                                   "Marka bulunamadi veya zaten silinmis")]

\* GET /api/brands
BrandListOut(sess, d) ==
    [sess |-> sess, db |-> d,
     resp |-> [CatalogResponse("brand.list", 0, 200, "") EXCEPT
                 !.listed = NotDeleted(d.brands)]]

\* One request of a catalog router, from its first statement to its response.
CatalogStep(out) ==
    /\ started.catalog < MaxCatalogRequests
    /\ started' = [started EXCEPT !.catalog = @ + 1]
    /\ pconn' = out.sess
    /\ db' = out.db
    /\ reply' = [reply EXCEPT !.catalog = out.resp]
    /\ UNCHANGED <<tx, co, conn, st, initialStock>>

ProductCreate ==
    \E body \in CreateBodies :
        CatalogStep(ProductCreateOut(body, pconn, db, FreshCatalogId("products")))

ProductUpdate ==
    \E id \in ProductIds, body \in UpdateBodies :
        CatalogStep(ProductUpdateOut(id, body, pconn, db))

ProductDelete == \E id \in ProductIds : CatalogStep(ProductDeleteOut(id, pconn, db))

ProductGet == \E id \in ProductIds : CatalogStep(ProductGetOut(id, pconn, db))

ProductList == CatalogStep(ProductListOut(pconn, db))

BrandCreate ==
    \E name \in BrandNames :
        CatalogStep(BrandCreateOut(name, pconn, db, FreshCatalogId("brands")))

BrandDelete == \E id \in BrandIds : CatalogStep(BrandDeleteOut(id, pconn, db))

BrandList == CatalogStep(BrandListOut(pconn, db))

\* new Pool({connectionString}): the pool closes a connection left idle for
\* idleTimeoutMillis (10 s by default); the server rolls back what the
\* session had not committed.
ProductsPoolIdleTimeout ==
    /\ pconn # CleanSession
    /\ pconn' = CleanSession
    /\ UNCHANGED <<db, tx, co, conn, st, started, reply, initialStock>>

-----------------------------------------------------------------------------
(* Initial state and specifications *)

ProductRow(sku, stock, deleted) ==
    [sku |-> sku, images |-> <<"a.jpg">>, features |-> <<"IP44">>,
     stock_quantity |-> stock,
     stock_status |-> StockStatusFor(stock), is_deleted |-> deleted]

\* Product 1 is scarce or plentiful; product 3 is soft-deleted.
InitialCatalogs ==
    {(1 :> ProductRow("SKU-1", s, FALSE)) @@ (2 :> ProductRow("SKU-2", 1, FALSE))
        @@ (3 :> ProductRow("SKU-3", 5, TRUE)) : s \in {2, 12}}

\* Two of the brands the schema inserts.
InitialBrands ==
    (1 :> [name |-> <<"ABB">>, is_deleted |-> FALSE])
        @@ (2 :> [name |-> <<"EATON">>, is_deleted |-> FALSE])

Init ==
    /\ \E catalog \in InitialCatalogs :
          /\ db = [EmptyRows EXCEPT !.products = catalog,
                                    !.brands = InitialBrands]
          /\ initialStock = [p \in DOMAIN catalog |-> catalog[p].stock_quantity]
    /\ tx = [c \in Clients |-> EmptyRows]
    /\ co = [c \in Clients |-> IdleCheckout]
    /\ conn = [k \in Conns |-> CleanSession]
    /\ st = [s \in Slots |-> IdleStatus]
    /\ started = [checkout |-> 0, status |-> 0, catalog |-> 0]
    /\ reply = [checkout |-> NoResponse, status |-> NoStatusResponse,
                catalog |-> NoCatalogResponse]
    /\ pconn = CleanSession

CheckoutBusy(c) == co[c].pc # "idle"

StatusBusy(s) == st[s].pc # "idle"

\* No request other than x is between its first and its last statement.
Alone(x) ==
    /\ \A c \in Clients \ {x} : ~CheckoutBusy(c)
    /\ \A s \in Slots \ {x} : ~StatusBusy(s)

\* Status changes on the orders of a few checkouts: every statement
\* interleaved, every pooled statement on any connection.
Next ==
    \/ \E c \in {"c1"} :
          \/ CheckoutBegin(c, {BasePayload}, MaxOrders)
          \/ CheckoutUser(c)
          \/ CheckoutOrder(c)
          \/ CheckoutItem(c)
          \/ CheckoutStock(c)
          \/ CheckoutCommit(c)
    \/ \E s \in Slots, k \in Conns :
          \/ StatusArrive(s, k, RacingRequests, MaxRacing)
          \/ StatusBeginTx(s, k)
          \/ StatusUpdate(s, k)
          \/ StatusInsert(s, k)
          \/ StatusCommit(s, k)
          \/ StatusLookup(s, k, BOOLEAN)
          \/ StatusRollback(s, k)

Spec == Init /\ [][Next]_vars

\* Requests one at a time, every statement succeeding: a request starts
\* only when no other is in flight, the idle pool hands out the connection
\* released last, the storage fails no statement and the x-user-id header
\* fits its column.
NextSerial ==
    \/ \E c \in {"c1"} :
          \/ Alone(c) /\ CheckoutBegin(c, FewPayloads, MaxOrders)
          \/ Alone(c) /\ CheckoutUser(c)
          \/ Alone(c) /\ CheckoutOrder(c)
          \/ Alone(c) /\ CheckoutItem(c)
          \/ Alone(c) /\ CheckoutStock(c)
          \/ Alone(c) /\ CheckoutCommit(c)
    \/ \E s \in {"s1"} :
          \/ Alone(s) /\ StatusArrive(s, "k1", FittingRequests, MaxStatusRequests)
          \/ Alone(s) /\ StatusBeginTx(s, "k1")
          \/ Alone(s) /\ StatusUpdate(s, "k1")
          \/ Alone(s) /\ StatusInsert(s, "k1")
          \/ Alone(s) /\ StatusCommit(s, "k1")
          \/ Alone(s) /\ StatusLookup(s, "k1", {FALSE})

SpecSerial == Init /\ [][NextSerial]_vars

\* Concurrent checkouts over the full set of payloads.
NextCheckout ==
    \E c \in Clients :
        \/ CheckoutBegin(c, Payloads, MaxCheckouts)
        \/ CheckoutUser(c)
        \/ CheckoutOrder(c)
        \/ CheckoutItem(c)
        \/ CheckoutStock(c)
        \/ CheckoutCommit(c)

SpecCheckout == Init /\ [][NextCheckout]_vars

\* Checkouts over the full set of payloads, one at a time.
NextCheckoutSerial ==
    \E c \in Clients :
        \/ Alone(c) /\ CheckoutBegin(c, Payloads, MaxCheckouts)
        \/ Alone(c) /\ CheckoutUser(c)
        \/ Alone(c) /\ CheckoutOrder(c)
        \/ Alone(c) /\ CheckoutItem(c)
        \/ Alone(c) /\ CheckoutStock(c)
        \/ Alone(c) /\ CheckoutCommit(c)

SpecCheckoutSerial == Init /\ [][NextCheckoutSerial]_vars

\* Catalog requests and checkouts, one request at a time: the pool of
\* routes/products.js then holds one connection and hands it to every
\* request.
NextCatalog ==
    \/ Alone("catalog") /\ ProductCreate
    \/ Alone("catalog") /\ ProductUpdate
    \/ Alone("catalog") /\ ProductDelete
    \/ Alone("catalog") /\ ProductGet
    \/ Alone("catalog") /\ ProductList
    \/ Alone("catalog") /\ BrandCreate
    \/ Alone("catalog") /\ BrandDelete
    \/ Alone("catalog") /\ BrandList
    \/ Alone("catalog") /\ ProductsPoolIdleTimeout
    \/ \E c \in {"c1"} :
          \/ Alone(c) /\ CheckoutBegin(c, {BasePayload}, MaxOrders)
          \/ Alone(c) /\ CheckoutUser(c)
          \/ Alone(c) /\ CheckoutOrder(c)
          \/ Alone(c) /\ CheckoutItem(c)
          \/ Alone(c) /\ CheckoutStock(c)
          \/ Alone(c) /\ CheckoutCommit(c)

SpecCatalog == Init /\ [][NextCatalog]_vars

\* Checkouts, status changes, product updates and product deletes, one
\* request at a time.
NextStore ==
    \/ \E c \in {"c1"} :
          \/ Alone(c) /\ CheckoutBegin(c, {BasePayload}, MaxCheckouts)
          \/ Alone(c) /\ CheckoutUser(c)
          \/ Alone(c) /\ CheckoutOrder(c)
          \/ Alone(c) /\ CheckoutItem(c)
          \/ Alone(c) /\ CheckoutStock(c)
          \/ Alone(c) /\ CheckoutCommit(c)
    \/ \E s \in {"s1"} :
          \/ Alone(s) /\ StatusArrive(s, "k1", RacingRequests, MaxRacing)
          \/ Alone(s) /\ StatusBeginTx(s, "k1")
          \/ Alone(s) /\ StatusUpdate(s, "k1")
          \/ Alone(s) /\ StatusInsert(s, "k1")
          \/ Alone(s) /\ StatusCommit(s, "k1")
          \/ Alone(s) /\ StatusLookup(s, "k1", BOOLEAN)
          \/ Alone(s) /\ StatusRollback(s, "k1")
    \/ Alone("catalog") /\ started.catalog < MaxOrders /\ ProductUpdate
    \/ Alone("catalog") /\ started.catalog < MaxOrders /\ ProductDelete

SpecStore == Init /\ [][NextStore]_vars

-----------------------------------------------------------------------------
(* Properties *)

\* Request c executes a statement (every statement moves its position).
CheckoutSteps(c) == co'[c] # co[c]

\* The rows of a table that belong to order o.
RowsOf(rows, o) == SelectSeq(rows, LAMBDA r : r.order_id = o)

\* The quantity of product p a sequence of order items asks for.
RECURSIVE QuantityOf(_, _)
QuantityOf(rows, p) ==
    IF rows = << >> THEN 0
    ELSE (IF Head(rows).product_id = IntVal(p) THEN Head(rows).quantity ELSE 0)
         + QuantityOf(Tail(rows), p)

\* C1: when the stock check of a cart entry finds that the entry asks for
\* more than the stock the request reads for its product, that step answers
\* 400 naming the item with the available and the requested quantity, ends
\* the request and discards every row it has written (order, items, address,
\* payment row, history row, user row, earlier stock decrements); and no step
\* of a checkout other than its COMMIT changes a committed row, so storage is
\* as it was before the request.
C1_InsufficientStockLeavesStorageUnchanged ==
    [][\A c \in Clients :
          /\ (CheckoutSteps(c) /\ co[c].pc # "commit") => db' = db
          /\ ( /\ CheckoutSteps(c)
               /\ co[c].pc = "stock"
               /\ co[c].req.cartItems[co[c].idx].quantity > co[c].currentStock )
             => /\ reply'.checkout.to = c
                /\ reply'.checkout.code = 400
                /\ reply'.checkout.item = co[c].req.cartItems[co[c].idx].name
                /\ reply'.checkout.available = co[c].currentStock
                /\ reply'.checkout.requested =
                       co[c].req.cartItems[co[c].idx].quantity
                /\ co'[c].pc = "idle"
                /\ tx'[c] = EmptyRows
                /\ db' = db]_vars

\* C1 witness: a request for 2 and then 1 of product 1, of which 2 are in
\* stock, was answered 400 for the second entry (0 available); the stock is 2
\* again and no order is stored.
C1_Witness ==
    /\ reply.checkout.code = 400
    /\ reply.checkout.item = "MCB 16A"
    /\ reply.checkout.available = 0
    /\ reply.checkout.requested = 1
    /\ db.products[1].stock_quantity = 2
    /\ db.products[1].stock_status = "low_stock"
    /\ db.orders = << >>
    /\ db.order_items = << >>
    /\ db.users = << >>
    /\ \A c \in Clients : co[c].pc = "idle"

\* C2: once every concurrent checkout has finished, the stock of each product
\* equals its initial stock minus the quantities of the stored order items
\* that reference it (the items of the checkouts that succeeded).
C2_NoLostDecrement ==
    (\A c \in Clients : co[c].pc = "idle")
    => \A p \in DOMAIN db.products :
          ~db.products[p].is_deleted
          => db.products[p].stock_quantity =
                initialStock[p] - QuantityOf(db.order_items, p)

\* The last history row stored for order o (none: a row without statuses).
LastHistory(o) ==
    LET rows == RowsOf(db.order_status_history, o)
    IN  IF rows = << >> THEN [old_status |-> "", new_status |-> ""]
        ELSE rows[Len(rows)]

\* C3: in every state, the committed status of every order is the new_status
\* of the last history row committed for it: no status is stored without the
\* history row of the change that set it.
C3_StatusAndHistoryTogether ==
    \A o \in DOMAIN db.orders :
        db.orders[o].status = LastHistory(o).new_status

\* C4: no step changes the committed status of an order that is cancelled or
\* completed.
C4_TerminalStatusesStay ==
    [][\A o \in DOMAIN db.orders :
          db.orders[o].status \in {"cancelled", "completed"}
          => db'.orders[o].status = db.orders[o].status]_vars

\* The transition table of the claim.
C5_Table(current) ==
    CASE current = "order_received" -> {"preparing", "cancelled"}
      [] current = "preparing" -> {"shipped", "cancelled"}
      [] current = "shipped" -> {"completed", "returned"}
      [] current = "returned" -> {"completed", "cancelled"}
      [] current = "cancelled" -> {}
      [] current = "completed" -> {}

\* C5: a request for an existing order and one of the six statuses is
\* rejected on arrival, with 400 and no change of storage, exactly when the
\* pair (current status, target) is not in the table; a request that is not
\* rejected ends with 200 and the target as the order's status.
C5_SucceedsExactlyOnTablePairs ==
    [][/\ (started'.status # started.status /\ st' = st)
          => LET r == reply'.status
             IN  (r.orderId \in DOMAIN db.orders /\ r.target \in ValidStatuses)
                 => /\ r.code = 400
                    /\ r.target \notin C5_Table(db.orders[r.orderId].status)
                    /\ db' = db
       /\ \A s \in Slots :
            /\ (started'.status # started.status /\ st'[s] # st[s])
               => /\ st'[s].oldStatus = db.orders[st'[s].orderId].status
                  /\ st'[s].req.status \in C5_Table(st'[s].oldStatus)
            /\ (st[s].pc # "idle" /\ st'[s].pc = "idle")
               => /\ reply'.status.to = s
                  /\ reply'.status.code = 200
                  /\ reply'.status.orderId = st[s].orderId
                  /\ reply'.status.status = st[s].req.status
                  /\ db'.orders[st[s].orderId].status = st[s].req.status
                  /\ st[s].req.status \in C5_Table(st[s].oldStatus)]_vars

\* C5 witness: an order went from order_received through preparing and
\* shipped to completed, and a request to move it on was answered 400.
C5_Witness ==
    /\ 1 \in DOMAIN db.orders
    /\ db.orders[1].status = "completed"
    /\ Len(RowsOf(db.order_status_history, 1)) = 4
    /\ LastHistory(1).old_status = "shipped"
    /\ reply.status.code = 400
    /\ reply.status.orderId = 1
    /\ reply.status.target = "cancelled"
    /\ reply.status.allowed = {}

\* Request c receives the response to a checkout that returned 201.
Returns201(c) ==
    /\ CheckoutSteps(c)
    /\ co'[c].pc = "idle"
    /\ reply'.checkout.to = c
    /\ reply'.checkout.code = 201

\* The cart of a request as order items, for counting what it asks for.
CartRows(cart) == [i \in 1..Len(cart) |-> OrderItemRow(cart[i], 0)]

\* C6: the step that returns 201 stores exactly one new order, with exactly
\* one delivery address, one payment_info row and as many order items as the
\* cart has entries, all linked to that order; every row stored belongs to a
\* stored order, and the rows of every other order are as they were.
C6_OneOrderWithItsRows ==
    [][\A c \in Clients :
          Returns201(c)
          => LET o == reply'.checkout.orderId
                 cart == co[c].req.cartItems
             IN  /\ o \notin DOMAIN db.orders
                 /\ DOMAIN db'.orders = DOMAIN db.orders \cup {o}
                 /\ Len(RowsOf(db'.delivery_addresses, o)) = 1
                 /\ Len(RowsOf(db'.payment_info, o)) = 1
                 /\ Len(RowsOf(db'.order_items, o)) = Len(cart)
                 /\ \A i \in 1..Len(cart) :
                       RowsOf(db'.order_items, o)[i].product_name = cart[i].name
                 /\ Len(db'.delivery_addresses) = Len(db.delivery_addresses) + 1
                 /\ Len(db'.payment_info) = Len(db.payment_info) + 1
                 /\ Len(db'.order_items) = Len(db.order_items) + Len(cart)
                 /\ \A o2 \in DOMAIN db.orders :
                       /\ db'.orders[o2] = db.orders[o2]
                       /\ RowsOf(db'.order_items, o2) = RowsOf(db.order_items, o2)
                       /\ RowsOf(db'.delivery_addresses, o2) =
                              RowsOf(db.delivery_addresses, o2)
                       /\ RowsOf(db'.payment_info, o2) =
                              RowsOf(db.payment_info, o2)
                       /\ RowsOf(db'.order_status_history, o2) =
                              RowsOf(db.order_status_history, o2)]_vars

\* C6 witness: a second order was stored with two items, next to a first
\* order that keeps its single item, address and payment row.
C6_Witness ==
    /\ reply.checkout.code = 201
    /\ reply.checkout.orderId = 2
    /\ DOMAIN db.orders = {1, 2}
    /\ Len(RowsOf(db.order_items, 2)) = 2
    /\ Len(RowsOf(db.delivery_addresses, 2)) = 1
    /\ Len(RowsOf(db.payment_info, 2)) = 1
    /\ Len(RowsOf(db.order_items, 1)) = 1
    /\ Len(RowsOf(db.delivery_addresses, 1)) = 1
    /\ Len(RowsOf(db.payment_info, 1)) = 1

\* C7: every response sent after the request's COMMIT returned is 200.
C7_CommittedChangeAnswers200 ==
    reply.status.committed => reply.status.code = 200

\* C8: every stock check that decrements a product stores the read stock
\* minus the requested quantity, with out_of_stock at 0, low_stock from 1 to
\* 10 and in_stock above 10; a request equal to the read stock is not
\* rejected as insufficient and stores 0 with out_of_stock.
C8_StockStatusThresholds ==
    [][\A c \in Clients :
          (CheckoutSteps(c) /\ co[c].pc = "stock")
          => LET item == co[c].req.cartItems[co[c].idx]
                 current == co[c].currentStock
             IN  /\ \A p \in DOMAIN tx'[c].products :
                       (p \notin DOMAIN tx[c].products
                            \/ tx'[c].products[p] # tx[c].products[p])
                       => LET new == tx'[c].products[p].stock_quantity
                              stored == tx'[c].products[p].stock_status
                          IN  /\ new = current - item.quantity
                              /\ new = 0 => stored = "out_of_stock"
                              /\ (1 <= new /\ new <= 10) => stored = "low_stock"
                              /\ new > 10 => stored = "in_stock"
                 /\ item.quantity = current
                    => /\ ~(co'[c].pc = "idle" /\ reply'.checkout.code = 400)
                       /\ co'[c].pc # "idle"
                          => LET row == tx'[c].products[ProductIdOf(item).val]
                             IN  /\ row.stock_quantity = 0
                                 /\ row.stock_status = "out_of_stock"]_vars

\* C8 witness: a cart of 2 of product 1 (stock 12) and 1 of product 2
\* (stock 1) was committed: product 1 holds 10 and is low_stock, product 2
\* holds 0 and is out_of_stock.
C8_Witness ==
    /\ initialStock[1] = 12
    /\ db.products[1].stock_quantity = 10
    /\ db.products[1].stock_status = "low_stock"
    /\ db.products[2].stock_quantity = 0
    /\ db.products[2].stock_status = "out_of_stock"
    /\ Len(db.order_items) = 2

\* C9: the step that returns 201 leaves each non-deleted product with the
\* stock it had before the request minus the sum of the quantities of the
\* cart entries that reference it, and leaves every product no entry
\* references with its stock_quantity and stock_status.
C9_StockIsBeforeMinusCart ==
    [][\A c \in Clients :
          Returns201(c)
          => LET cart == co[c].req.cartItems
             IN  /\ DOMAIN db'.products = DOMAIN db.products
                 /\ \A p \in DOMAIN db.products :
                       /\ ~db.products[p].is_deleted
                          => db'.products[p].stock_quantity =
                                db.products[p].stock_quantity
                                    - QuantityOf(CartRows(cart), p)
                       /\ (\A i \in 1..Len(cart) :
                              ProductIdOf(cart[i]) # IntVal(p))
                          => db'.products[p] = db.products[p]]_vars

\* C9 witness: a cart of 2 and then 1 of product 1 (stock 12) was committed:
\* product 1 holds 9, product 2 still holds 1.
C9_Witness ==
    /\ reply.checkout.code = 201
    /\ initialStock[1] = 12
    /\ Len(db.order_items) = 2
    /\ db.order_items[1].quantity = 2
    /\ db.order_items[2].quantity = 1
    /\ db.order_items[1].product_id = IntVal(1)
    /\ db.order_items[2].product_id = IntVal(1)
    /\ db.products[1].stock_quantity = 9
    /\ db.products[1].stock_status = "low_stock"
    /\ db.products[2].stock_quantity = 1

\* Card data other than the request's own, every field non-empty.
OtherCards ==
    {[cardNumber |-> "5500", cardName |-> "A KAYA", expiryDate |-> "01/30",
      cvv |-> "999"],
     [cardNumber |-> "4111", cardName |-> "ADA KAYA", expiryDate |-> "12/28",
      cvv |-> "123"]}

HasCard(req) ==
    /\ req.paymentInfo.cardNumber # "" /\ req.paymentInfo.cardName # ""
    /\ req.paymentInfo.expiryDate # "" /\ req.paymentInfo.cvv # ""

\* Two outcomes of a statement agree on the rows written, on the statement
\* that ends the transaction, on the response, and on the request's position
\* and locals apart from the card data it carries.
SameApartFromCard(a, b) ==
    /\ a.tx = b.tx
    /\ a.end = b.end
    /\ a.resp = b.resp
    /\ [a.co EXCEPT !.req.paymentInfo = NoPayload.paymentInfo]
         = [b.co EXCEPT !.req.paymentInfo = NoPayload.paymentInfo]

\* The requests that may arrive, as far as the first statement reads them:
\* it reads the sections and whether the cart is empty, not the entries.
ArrivingWithCard == {r \in Payloads : HasCard(r) /\ Len(r.cartItems) <= 1}

\* C10: in every reachable state, the first statement of every request that
\* may still arrive and the next statement of every checkout in progress write the
\* same rows and send the same response when the request's cardNumber,
\* cardName, expiryDate and cvv are replaced by other non-empty values; two
\* requests that differ only in these fields therefore proceed in lockstep
\* to the same storage and the same response.
C10_CardDataNeverStored ==
    /\ started.checkout < MaxCheckouts
       => \A req \in ArrivingWithCard, card \in OtherCards :
          \A orderNumber \in OrderNumbers :
              SameApartFromCard(
                  BeginOut(req, orderNumber, db),
                  BeginOut([req EXCEPT !.paymentInfo = card], orderNumber, db))
    /\ \A c \in Clients : \A card \in OtherCards :
        LET l == co[c]
            l2 == [l EXCEPT !.req.paymentInfo = card]
        IN  CASE l.pc = "idle" -> TRUE
              [] l.pc = "user" ->
                   SameApartFromCard(UserOut(l, tx[c], db, FreshId("users")),
                                     UserOut(l2, tx[c], db, FreshId("users")))
              [] l.pc = "order" ->
                   SameApartFromCard(OrderOut(l, tx[c], db, FreshId("orders")),
                                     OrderOut(l2, tx[c], db, FreshId("orders")))
              [] l.pc = "item" ->
                   SameApartFromCard(ItemOut(l, tx[c], db), ItemOut(l2, tx[c], db))
              [] l.pc = "stock" ->
                   SameApartFromCard(StockOut(l, tx[c], db),
                                     StockOut(l2, tx[c], db))
              [] l.pc = "commit" ->
                   SameApartFromCard(CommitOut(l, tx[c], db),
                                     CommitOut(l2, tx[c], db))

\* C10 witness: a request carrying the card 5500 has stored its payment_info
\* row and is about to commit.
C10_Witness ==
    \E c \in Clients :
        /\ co[c].pc = "commit"
        /\ co[c].req.paymentInfo.cardNumber = "5500"
        /\ Len(tx[c].payment_info) = 1
        /\ tx[c].payment_info[1].payment_status = "completed"

\* A body that lacks a section or a total, lacks a required field of a
\* section, or whose cartItems is empty or not a list.
C11_Lacks(req) ==
    \/ req.absent # {}
    \/ \E f \in {"firstName", "lastName", "email", "phone"} :
          req.personalInfo[f] = ""
    \/ \E f \in {"address", "city", "district"} : req.deliveryAddress[f] = ""
    \/ \E f \in {"cardNumber", "cardName", "expiryDate", "cvv"} :
          req.paymentInfo[f] = ""
    \/ ~req.cartIsArray
    \/ req.cartItems = << >>

\* The bodies explored that lack something (the empty cart is one of Carts).
C11_LackingPayloads ==
    {req \in IncompletePayloads \cup {[BasePayload EXCEPT !.cartItems = << >>]} :
        C11_Lacks(req)}

\* C11: whenever a checkout arrives, a body that lacks a section, a total, a
\* required field of a section, or a non-empty list of cart items is
\* answered 400 by its first step, which sends ROLLBACK, writes no row and
\* ends the request; and every arrival that is rejected at once answers 400
\* and leaves the committed rows of every table and the uncommitted rows of
\* every other request as they were.
C11_IncompleteBodyRejected ==
    [][/\ started'.checkout # started.checkout
          => \A req \in C11_LackingPayloads, orderNumber \in OrderNumbers :
                LET out == BeginOut(req, orderNumber, db)
                IN  /\ out.resp.code = 400
                    /\ out.end = "ROLLBACK"
                    /\ out.tx = EmptyRows
                    /\ out.co = IdleCheckout
       /\ (started'.checkout # started.checkout /\ co' = co)
          => /\ reply'.checkout.code = 400
             /\ db' = db
             /\ tx' = tx]_vars

\* C11 witness: after one order was stored, a body without a required field
\* of its delivery address was answered 400; the order is the only one.
C11_Witness ==
    /\ reply.checkout.code = 400
    /\ reply.checkout.error = "Missing required deliveryAddress fields"
    /\ DOMAIN db.orders = {1}
    /\ Len(db.order_items) = 1
    /\ Len(db.order_status_history) = 1
    /\ \A c \in Clients : co[c].pc = "idle" /\ tx[c] = EmptyRows

\* The requests that name committed order o, by id or by order number.
NamesOrder(req, o) ==
    \/ req.via = "id" /\ req.id = o
    \/ req.via = "number" /\ req.orderNumber = db.orders[o].order_number

\* C12: whenever a status request arrives, a request on either endpoint
\* whose target is the status the order it names has, whichever of the six
\* statuses that is, is answered at once with 400 'Order is already in this
\* status'; and every arrival answered so at once leaves every table as it
\* was: the order keeps its status and no history row is stored.
C12_SameStatusRejected ==
    [][started'.status # started.status
       => /\ \A req \in StatusRequests, o \in DOMAIN db.orders, k \in Conns :
                (NamesOrder(req, o) /\ db.orders[o].status = req.status)
                => ArriveOut(req, conn[k], db) =
                       Rejected(400, "Order is already in this status", o)
          /\ (st' = st /\ reply'.status.error = "Order is already in this status")
             => /\ reply'.status.code = 400
                /\ reply'.status.target =
                       db.orders[reply'.status.orderId].status
                /\ db' = db
                /\ conn' = conn]_vars

\* C12 witness: order 1 went through preparing and shipped to returned, and a
\* request by order number for returned was answered 400; its history still
\* has the four rows of its creation and its three changes.
C12_Witness ==
    /\ 1 \in DOMAIN db.orders
    /\ db.orders[1].status = "returned"
    /\ reply.status.code = 400
    /\ reply.status.error = "Order is already in this status"
    /\ reply.status.via = "number"
    /\ reply.status.target = "returned"
    /\ reply.status.orderId = 1
    /\ Len(RowsOf(db.order_status_history, 1)) = 4

\* The six statuses of the claim.
C13_Statuses ==
    {"order_received", "preparing", "shipped", "returned", "cancelled",
     "completed"}

\* The requests explored, as far as the checks on arrival read them: the
\* route, the order named and the status.
C13_Requests == {r \in StatusRequests : r.notes = "" /\ r.header = NoHeader}

\* C13: whenever a status request arrives, on either endpoint a request
\* whose status is none of the six is answered 400, a request with one of
\* the six for an order no row matches is answered 404, and a request for an
\* existing order and a target that is not in the table row of its status is
\* answered 400, each at once; and every arrival answered at once answers
\* 400 or 404 and writes no row: every order keeps its status and
\* updated_at (the UPDATE that sets both is never sent) and the history is
\* as it was.
C13_RejectionsChangeNothing ==
    [][started'.status # started.status
       => /\ \A req \in C13_Requests, sess \in {conn[k] : k \in Conns} :
                LET out == ArriveOut(req, sess, db)
                    named == {o \in DOMAIN db.orders : NamesOrder(req, o)}
                IN  /\ req.status \notin C13_Statuses
                       => out.st = IdleStatus /\ out.resp.code = 400
                    /\ (req.status \in C13_Statuses /\ named = {})
                       => out.st = IdleStatus /\ out.resp.code = 404
                    /\ \A o \in named :
                          ( /\ req.status \in C13_Statuses
                            /\ req.status \notin C5_Table(db.orders[o].status) )
                          => out.st = IdleStatus /\ out.resp.code = 400
          /\ st' = st
             => /\ reply'.status.code \in {400, 404}
                /\ db' = db
                /\ conn' = conn]_vars

\* C13 witness: order 1 is shipped after two changes, and a request by id for
\* an order that does not exist was answered 404; order 1 and its three
\* history rows are as they were.
C13_Witness ==
    /\ DOMAIN db.orders = {1}
    /\ db.orders[1].status = "shipped"
    /\ Len(db.order_status_history) = 3
    /\ reply.status.code = 404
    /\ reply.status.via = "id"
    /\ reply.status.target = "preparing"
    /\ \A s \in Slots : st[s].pc = "idle"

\* C14: the step that returns 201 stores the new order with status
\* order_received, one payment_info row for it whose payment_status is
\* completed, and exactly one history row for it, whose old_status is null
\* and whose new_status is order_received.
C14_NewOrderStartsReceived ==
    [][\A c \in Clients :
          Returns201(c)
          => LET o == reply'.checkout.orderId
                 payments == RowsOf(db'.payment_info, o)
                 history == RowsOf(db'.order_status_history, o)
             IN  /\ o \in DOMAIN db'.orders \ DOMAIN db.orders
                 /\ db'.orders[o].status = "order_received"
                 /\ Len(payments) = 1
                 /\ payments[1].payment_status = "completed"
                 /\ Len(history) = 1
                 /\ history[1].old_status = NullText
                 /\ history[1].new_status = "order_received"]_vars

\* C14 witness: two checkouts returned 201; each order is order_received and
\* has its completed payment row and its single history row from null.
C14_Witness ==
    /\ reply.checkout.code = 201
    /\ DOMAIN db.orders = {1, 2}
    /\ \A o \in {1, 2} :
          /\ db.orders[o].status = "order_received"
          /\ RowsOf(db.payment_info, o) =
                 <<[order_id |-> o, payment_status |-> "completed"]>>
          /\ Len(RowsOf(db.order_status_history, o)) = 1
          /\ RowsOf(db.order_status_history, o)[1].old_status = NullText

\* C16: in every state, every committed order satisfies
\* grand_total = total_price + kdv.
C16_GrandTotalIsSum ==
    \A o \in DOMAIN db.orders :
        db.orders[o].grand_total = db.orders[o].total_price + db.orders[o].kdv

\* The committed users with the given email.
UsersWithEmail(users, email) == {u \in DOMAIN users : users[u].email = email}

\* C20: in every state no two committed user rows have the same email; and
\* the step that returns 201 stores the order with the id of the user row
\* that has the submitted email: the row that had this email before, with
\* its id and with first name, last name and phone set to the submitted
\* values, or a new row with the submitted values when no row had it.
C20_OneUserPerEmail ==
    [][/\ \A u1, u2 \in DOMAIN db.users :
             db.users[u1].email = db.users[u2].email => u1 = u2
       /\ \A c \in Clients :
             Returns201(c)
             => LET info == co[c].req.personalInfo
                    u == db'.orders[reply'.checkout.orderId].user_id
                    before == UsersWithEmail(db.users, info.email)
                IN  /\ UsersWithEmail(db'.users, info.email) = {u}
                    /\ db'.users[u] =
                           [first_name |-> info.firstName,
                            last_name |-> info.lastName,
                            email |-> info.email, phone |-> info.phone]
                    /\ before # {} => before = {u}
                    /\ before = {} => u \notin DOMAIN db.users
                    /\ \A u2 \in DOMAIN db.users \ {u} :
                          db'.users[u2] = db.users[u2]]_vars

\* C20 witness: Ada Kaya placed an order, then a checkout with the same
\* email as Ali Can returned 201: one user row, with the first id, now
\* holding Ali Can's name and phone, and both orders attributed to it.
C20_Witness ==
    /\ reply.checkout.code = 201
    /\ DOMAIN db.users = {1}
    /\ db.users[1] = [first_name |-> "Ali", last_name |-> "Can",
                      email |-> "ada@x", phone |-> "0532"]
    /\ DOMAIN db.orders = {1, 2}
    /\ db.orders[1].user_id = 1
    /\ db.orders[2].user_id = 1

\* C15: in every reachable state each product's stock_status is the value
\* derived from its stock_quantity (0 out_of_stock, 1 to 10 low_stock, above
\* 10 in_stock), after any sequence of product creates, product updates and
\* checkouts.
C15_StockStatusDerived ==
    \A p \in DOMAIN db.products :
        db.products[p].stock_status = StockStatusFor(db.products[p].stock_quantity)

\* The brand rows holding the name.
BrandsNamed(brands, name) == {b \in DOMAIN brands : brands[b].name = name}

\* C17: deleting a brand and then creating a brand with the same name
\* restores the original row: the brand is listed again with the id it had
\* before the deletion, and the brands table holds no second row with that
\* name.
C17_RecreatedBrandIsRestored ==
    [][(started'.catalog # started.catalog /\ reply'.catalog.op = "brand.create")
       => \A b \in DOMAIN db.brands :
             (db.brands[b].is_deleted /\ db.brands[b].name = Trim(reply'.catalog.name))
             => /\ reply'.catalog.code = 200
                /\ reply'.catalog.restored
                /\ reply'.catalog.id = b
                /\ DOMAIN db'.brands = DOMAIN db.brands
                /\ db'.brands[b] = [db.brands[b] EXCEPT !.is_deleted = FALSE]
                /\ b \in BrandListOut(pconn', db').resp.listed
                /\ BrandsNamed(db'.brands, db.brands[b].name) = {b}
                /\ \A other \in DOMAIN db.brands \ {b} :
                      db'.brands[other] = db.brands[other]]_vars

C17_Witness ==
    /\ reply.catalog.op = "brand.create"
    /\ reply.catalog.code = 200
    /\ reply.catalog.restored
    /\ reply.catalog.id = 1
    /\ reply.catalog.name = <<" ", "ABB", " ">>
    /\ db.brands[1] = [name |-> <<"ABB">>, is_deleted |-> FALSE]
    /\ Cardinality(DOMAIN db.brands) = 2

\* The products and the brands a request finds soft-deleted.
DeletedProducts(sess, d) ==
    {p \in DOMAIN SessionProducts(sess, d) : SessionProducts(sess, d)[p].is_deleted}

DeletedBrands(d) == {b \in DOMAIN d.brands : d.brands[b].is_deleted}

\* C18: after a product or a brand has been soft-deleted it is absent from
\* every list result, a product GET by id returns 404, and a product update
\* returns 404 and changes nothing, in every later state (for a brand, until
\* it is restored by re-creation).
C18_SoftDeletedStaysHidden ==
    [][/\ \A p \in DeletedProducts(pconn, db) :
             /\ p \in DeletedProducts(pconn', db')
             /\ (started'.catalog # started.catalog /\ reply'.catalog.op = "product.list")
                => p \notin reply'.catalog.listed
             /\ (started'.catalog # started.catalog /\ reply'.catalog.id = p
                    /\ reply'.catalog.op = "product.get")
                => reply'.catalog.code = 404
             /\ (started'.catalog # started.catalog /\ reply'.catalog.id = p
                    /\ reply'.catalog.op = "product.update")
                => reply'.catalog.code = 404 /\ db' = db
       /\ \A b \in DeletedBrands(db) :
             /\ \/ b \in DeletedBrands(db')
                \/ /\ started'.catalog # started.catalog
                   /\ reply'.catalog.op = "brand.create"
                   /\ reply'.catalog.restored
                   /\ reply'.catalog.id = b
             /\ (started'.catalog # started.catalog /\ reply'.catalog.op = "brand.list")
                => b \notin reply'.catalog.listed]_vars

\* The tables but the one named.
OtherTablesSame(d1, d2, table) ==
    \A t \in DOMAIN d1 \ {table} : d2[t] = d1[t]

\* C19: a delete of a product or a brand never removes a row: it only sets
\* is_deleted on a row that is not yet deleted, the number of rows in each
\* table never decreases, and deleting an already-deleted or unknown id
\* returns 404 without changing anything.
C19_DeleteOnlyMarks ==
    [][/\ DOMAIN db.products \subseteq DOMAIN db'.products
       /\ DOMAIN db.brands \subseteq DOMAIN db'.brands
       /\ DOMAIN SessionProducts(pconn, db) \subseteq DOMAIN SessionProducts(pconn', db')
       /\ (started'.catalog # started.catalog /\ reply'.catalog.op = "product.delete")
          => LET p == reply'.catalog.id
                 before == SessionProducts(pconn, db)
                 after == SessionProducts(pconn', db')
             IN  /\ OtherTablesSame(db, db', "products")
                 /\ OtherTablesSame(pconn.rows, pconn'.rows, "products")
                 /\ IF p \in DOMAIN before /\ ~before[p].is_deleted
                    THEN /\ reply'.catalog.code = 200
                         /\ after = [before EXCEPT ![p].is_deleted = TRUE]
                    ELSE /\ reply'.catalog.code = 404
                         /\ db' = db
                         /\ pconn' = pconn
       /\ (started'.catalog # started.catalog /\ reply'.catalog.op = "brand.delete")
          => LET b == reply'.catalog.id
             IN  /\ OtherTablesSame(db, db', "brands")
                 /\ pconn' = pconn
                 /\ IF b \in DOMAIN db.brands /\ ~db.brands[b].is_deleted
                    THEN /\ reply'.catalog.code = 200
                         /\ db'.brands = [db.brands EXCEPT ![b].is_deleted = TRUE]
                    ELSE /\ reply'.catalog.code = 404
                         /\ db' = db]_vars

C19_Witness ==
    /\ reply.catalog.op = "product.delete"
    /\ reply.catalog.code = 404
    /\ reply.catalog.id = 1
    /\ db.products[1].is_deleted
    /\ db.products[1].sku = "SKU-1"
    /\ Cardinality(DOMAIN db.products) = 3
    /\ started.catalog = 2

\* The cart entry carries no id, or an id that no product has, or the id of a
\* soft-deleted product, as the request sees the products.
WithoutLiveProduct(item, products) ==
    \/ item.id = << >>
    \/ /\ ProductIdOf(item).kind = "int"
       /\ \/ ProductIdOf(item).val \notin DOMAIN products
          \/ products[ProductIdOf(item).val].is_deleted

\* C21: a cart entry whose id is missing, references no product or references
\* a soft-deleted product records an order item and leaves every product's
\* stock_quantity and stock_status unchanged.
C21_EntryWithoutProductIsRecorded ==
    [][\A c \in Clients :
          ( /\ CheckoutSteps(c)
            /\ co[c].pc = "item"
            /\ WithoutLiveProduct(co[c].req.cartItems[co[c].idx],
                                  VisibleProducts(tx[c], db)) )
          => /\ tx'[c].order_items =
                    Append(tx[c].order_items,
                           OrderItemRow(co[c].req.cartItems[co[c].idx],
                                        co[c].orderId))
             /\ co'[c].pc \in {"item", "commit"}
             /\ tx'[c].products = tx[c].products
             /\ db'.products = db.products]_vars

\* The rows of a are the first rows of b, in the same order.
IsPrefix(a, b) == Len(a) <= Len(b) /\ SubSeq(b, 1, Len(a)) = a

\* C22: once written, an order item, a delivery address and a status-history
\* row are never modified or removed by a later operation (status changes,
\* later checkouts, product updates or deletes); the history of an order only
\* grows.
C22_AuditRowsAreKept ==
    [][/\ IsPrefix(db.order_items, db'.order_items)
       /\ IsPrefix(db.delivery_addresses, db'.delivery_addresses)
       /\ IsPrefix(db.order_status_history, db'.order_status_history)
       /\ \A o \in DOMAIN db.orders :
             /\ RowsOf(db'.order_items, o) = RowsOf(db.order_items, o)
             /\ RowsOf(db'.delivery_addresses, o) = RowsOf(db.delivery_addresses, o)
             /\ IsPrefix(RowsOf(db.order_status_history, o),
                         RowsOf(db'.order_status_history, o))]_vars

\* C22 witness: the first order has its item, its address and three history
\* rows after a second checkout, two status changes and the soft delete of
\* the product its item references.
C22_Witness ==
    /\ DOMAIN db.orders = {1, 2}
    /\ Len(RowsOf(db.order_status_history, 1)) = 3
    /\ RowsOf(db.order_status_history, 1)[1] = InitialHistoryRow(1)
    /\ RowsOf(db.order_items, 1) = <<OrderItemRow(BasePayload.cartItems[1], 1)>>
    /\ RowsOf(db.delivery_addresses, 1) = <<DeliveryAddressRow(BasePayload, 1)>>
    /\ reply.catalog.op = "product.delete"
    /\ reply.catalog.code = 200
    /\ reply.catalog.id = 1
    /\ db.products[1].is_deleted

\* C23: no two orders ever share an order_number; when a checkout generates
\* a number that is already in use, that checkout fails and leaves no order,
\* order item, address, payment row, history row, user change or stock change
\* behind.
C23_OrderNumbersAreUnique ==
    [][/\ \A o1, o2 \in DOMAIN db'.orders :
             db'.orders[o1].order_number = db'.orders[o2].order_number => o1 = o2
       /\ \A c \in Clients :
             ( /\ CheckoutSteps(c)
               /\ co[c].pc = "order"
               /\ \E o \in DOMAIN db.orders :
                     db.orders[o].order_number = co[c].orderNumber )
             => /\ reply'.checkout.to = c
                /\ reply'.checkout.code = 500
                /\ co'[c] = IdleCheckout
                /\ tx'[c] = EmptyRows
                /\ db' = db]_vars

\* C23 witness: a second checkout with the number of the stored order, and
\* with another name and phone for the same email, was answered 500; the
\* store holds the first order only, the user as the first checkout wrote it
\* and the stock less the first order's item.
C23_Witness ==
    /\ reply.checkout.code = 500
    /\ reply.checkout.error =
          "duplicate key value violates unique constraint orders_order_number_key"
    /\ DOMAIN db.orders = {1}
    /\ db.orders[1].order_number = "MYE-1700000000000-7"
    /\ db.users = <<UserRow([BasePayload EXCEPT !.personalInfo.firstName = "Ali",
                                                !.personalInfo.lastName = "Can",
                                                !.personalInfo.phone = "0532"])>>
    /\ Len(db.order_items) = 1
    /\ Len(db.delivery_addresses) = 1
    /\ Len(db.payment_info) = 1
    /\ Len(db.order_status_history) = 1
    /\ db.products[1].stock_quantity = initialStock[1] - 1
    /\ \A c \in Clients : co[c].pc = "idle" /\ tx[c] = EmptyRows

\* Request s sends its 200 response in this step, having attempted the
\* notification.
NotifiesNow(s) ==
    /\ st[s].pc \in {"commit", "lookup"}
    /\ st'[s].pc = "idle"
    /\ reply'.status.to = s
    /\ reply'.status.code = 200
    /\ reply'.status.notify \in {"sent", "failed"}

\* The rows of the change of request l that a session or the store holds.
HoldsChange(rows, l) ==
    \/ \E i \in 1..Len(rows.order_status_history) :
          rows.order_status_history[i] = StatusHistoryRow(l)
    \/ /\ l.orderId \in DOMAIN rows.orders
       /\ rows.orders[l.orderId].status = l.req.status

\* C24: a status-change notification for an order is attempted only after
\* the status update and the history row of that change have been committed,
\* and is never attempted for a request that was rejected or whose
\* transaction failed.
C24_NotifiesAfterCommit ==
    [][/\ \A s \in Slots :
             NotifiesNow(s)
             => /\ \E i \in 1..Len(db'.order_status_history) :
                      db'.order_status_history[i] = StatusHistoryRow(st[s])
                /\ \A k \in Conns : ~HoldsChange(conn'[k].rows, st[s])
       /\ (reply'.status # reply.status /\ reply'.status.code # 200)
          => reply'.status.notify = ""]_vars

\* The request for order o with status t and body b, by id and by number.
ById(o, t, b) ==
    [via |-> "id", id |-> o, orderNumber |-> "", status |-> t,
     notes |-> b.notes, header |-> b.header]

ByNumber(number, t, b) ==
    [via |-> "number", id |-> 0, orderNumber |-> number, status |-> t,
     notes |-> b.notes, header |-> b.header]

\* The committed rows after BEGIN, UPDATE, INSERT and the COMMIT or ROLLBACK
\* of the accepted request l, run on session sess without another request
\* in between.
ChangeOf(l, sess, d) ==
    LET b == BeginTxOut(l, sess)
        u == UpdateOut(b.st, b.sess, d)
        i == InsertOut(u.st, u.sess, u.db)
    IN  IF b.st.pc = "update" /\ u.st.pc = "insert" /\ i.st.pc = "commit"
        THEN EndSession("COMMIT", i.sess, i.db).db
        ELSE EndSession("ROLLBACK", i.sess, i.db).db

C26_HistoryIsAChain ==
    \A o \in DOMAIN db.orders :
        LET rows == RowsOf(db.order_status_history, o)
        IN  /\ rows # << >>
            /\ rows[1].old_status = NullText
            /\ rows[1].new_status = "order_received"
            /\ \A i \in 2..Len(rows) : rows[i].old_status = rows[i - 1].new_status
            /\ rows[Len(rows)].new_status = db.orders[o].status

\* The body carries none of the fields a product update can set.
NoUpdatableField(body) ==
    /\ body.name = "" /\ body.sku = "" /\ body.stockStatus = ""
    /\ body.stockQuantity.kind # "int"
    /\ ~body.images.given /\ ~body.features.given

\* C27: a product update changes only the fields present in the request body:
\* a request that omits images and features leaves the stored images and
\* features as they were, and a request that supplies no updatable field is
\* rejected with 400 'No fields provided to update' and changes nothing.
C27_UpdateChangesOnlyGivenFields ==
    [][(started'.catalog # started.catalog /\ reply'.catalog.op = "product.update")
       => \A id \in ProductIds, body \in UpdateBodies :
             LET out == ProductUpdateOut(id, body, pconn, db)
                 before == SessionProducts(pconn, db)
                 after == SessionProducts(pconn', db')
             IN  (pconn' = out.sess /\ db' = out.db /\ reply'.catalog = out.resp)
                 => /\ (id \in DOMAIN before /\ ~body.images.given)
                       => after[id].images = before[id].images
                    /\ (id \in DOMAIN before /\ ~body.features.given)
                       => after[id].features = before[id].features
                    /\ NoUpdatableField(body)
                       => /\ reply'.catalog.code = 400
                          /\ reply'.catalog.error = "No fields provided to update"
                          /\ db' = db]_vars

\* C28: no connection is ever idle in the pool with a transaction still
\* open: every handler that issues BEGIN (checkout, product create, product
\* update, both status changes) ends that transaction with COMMIT or ROLLBACK
\* on the same connection on every path, early validation returns included,
\* before the connection is released.  The connection of the products pool is
\* idle between two requests, the connections of the orders pool when no
\* status change is in flight, a checkout's client when its request is over.
C28_NoIdleOpenTransaction ==
    /\ ~pconn.intx
    /\ (\A s \in Slots : ~StatusBusy(s)) => \A k \in Conns : ~conn[k].intx
    /\ \A c \in Clients : ~CheckoutBusy(c) => tx[c] = EmptyRows

\* C29: for every product whose stock_quantity is non-negative, a checkout
\* never makes its stock_quantity negative and never increases it, for every
\* integer cart quantity, zero and negative values included.
C29_StockNeverGrowsNorGoesNegative ==
    [][\A p \in DOMAIN db.products :
          db.products[p].stock_quantity >= 0
          => /\ db'.products[p].stock_quantity >= 0
             /\ db'.products[p].stock_quantity <= db.products[p].stock_quantity]_vars

\* C30: no order ever holds the same status twice: the transition graph has
\* no cycle, so each order undergoes at most four successful status changes
\* and its history never exceeds five rows, in every execution, those with
\* concurrent status-change requests for the same order included.
C30_NoStatusTwice ==
    \A o \in DOMAIN db.orders :
        LET rows == RowsOf(db.order_status_history, o)
        IN  /\ Len(rows) <= Cardinality(ValidStatuses) - 1
            /\ \A i, j \in 1..Len(rows) :
                  rows[i].new_status = rows[j].new_status => i = j

=============================================================================
